---- MODULE Spec2Model ----
(***************************************************************************)
(* LiveTranscript: the browser session of client/src/pages/Home.tsx and    *)
(* the ChunkedAudioRecorder of client/src/lib/audio-recorder.ts.           *)
(*                                                                         *)
(* Text is a sequence of one-character strings, so that slicing, trimming, *)
(* lower-casing and substring search are computed character by character   *)
(* as the JavaScript string methods compute them.                          *)
(***************************************************************************)
EXTENDS Integers, Sequences, FiniteSets, TLC

(***************************************************************************)
(* JavaScript string primitives                                            *)
(***************************************************************************)
Min(a, b) == IF a <= b THEN a ELSE b
Max(a, b) == IF a >= b THEN a ELSE b

UpperCaseLetters ==
  <<"A","B","C","D","E","F","G","H","I","J","K","L","M",
    "N","O","P","Q","R","S","T","U","V","W","X","Y","Z">>
LowerCaseLetters ==
  <<"a","b","c","d","e","f","g","h","i","j","k","l","m",
    "n","o","p","q","r","s","t","u","v","w","x","y","z">>
UpperCaseSet == {UpperCaseLetters[i] : i \in 1..Len(UpperCaseLetters)}

\* String.prototype.toLowerCase on one character
LowerChar(c) ==
  IF c \in UpperCaseSet
    THEN LowerCaseLetters[CHOOSE i \in 1..Len(UpperCaseLetters) : UpperCaseLetters[i] = c]
    ELSE c

ToLowerCase(s) == [i \in 1..Len(s) |-> LowerChar(s[i])]

\* the characters matched by \s and removed by trim()
WhiteSpace == {" ", "\t", "\n"}

\* s.slice(start, end) for 0 <= start, 0 <= end (end is clamped to the length)
Slice(s, start, end) ==
  LET e == Min(end, Len(s))
  IN  IF start >= e THEN <<>> ELSE SubSeq(s, start + 1, e)

\* s.slice(start) for start >= 0
SliceFrom(s, start) == Slice(s, start, Len(s))

\* s.slice(-n) for n >= 0; slice(-0) is slice(0), the whole string
SliceLast(s, n) ==
  IF n = 0 THEN s ELSE SliceFrom(s, Max(Len(s) - n, 0))

\* s.trim()
Trim(s) ==
  LET keep == {i \in 1..Len(s) : s[i] \notin WhiteSpace}
  IN  IF keep = {} THEN <<>>
      ELSE LET lo == CHOOSE i \in keep : \A j \in keep : i <= j
               hi == CHOOSE i \in keep : \A j \in keep : i >= j
           IN  SubSeq(s, lo, hi)

\* hay.includes(needle)
Includes(hay, needle) ==
  \E i \in 0..(Len(hay) - Len(needle)) : SubSeq(hay, i + 1, i + Len(needle)) = needle

\* s.startsWith(p)
StartsWith(s, p) == Len(p) <= Len(s) /\ SubSeq(s, 1, Len(p)) = p

\* s.endsWith(" ")
EndsWithSpace(s) == Len(s) > 0 /\ s[Len(s)] = " "

\* s.split(/\s+/).filter(Boolean): the maximal runs of non-whitespace, in order
RECURSIVE SplitWordsFrom(_, _, _)
SplitWordsFrom(s, i, cur) ==
  IF i > Len(s)
    THEN IF cur = <<>> THEN <<>> ELSE <<cur>>
    ELSE IF s[i] \in WhiteSpace
           THEN IF cur = <<>> THEN SplitWordsFrom(s, i + 1, <<>>)
                ELSE <<cur>> \o SplitWordsFrom(s, i + 1, <<>>)
           ELSE SplitWordsFrom(s, i + 1, Append(cur, s[i]))

SplitWords(s) == SplitWordsFrom(s, 1, <<>>)

\* words.join(" ")
RECURSIVE JoinSpace(_)
JoinSpace(words) ==
  IF words = <<>> THEN <<>>
  ELSE IF Len(words) = 1 THEN words[1]
  ELSE words[1] \o <<" ">> \o JoinSpace(Tail(words))

(***************************************************************************)
(* Program constants of the transcript reconciler                          *)
(***************************************************************************)
TailWindow == 500
NgramSize == 3
MinOverlap == 5

(***************************************************************************)
(* The setTranscript updater of handleChunkRef.current                     *)
(***************************************************************************)
\* the last TailWindow characters of the transcript
TailOf(prev) == SliceLast(prev, TailWindow)

\* the word n-grams of the lower-cased fragment, each joined by one space
Ngrams(incomingWords) ==
  [i \in 1..(Len(incomingWords) - NgramSize + 1) |->
     JoinSpace(SubSeq(incomingWords, i, i + NgramSize - 1))]

\* how many n-grams occur in the lower-cased tail
Matched(ngrams, tailLower) ==
  Cardinality({i \in 1..Len(ngrams) : Includes(tailLower, ngrams[i])})

\* a slip: at least half instead of more than half
AtLeastHalf(matched, total) == 2 * matched >= total

\* matched / ngrams.length > 0.5 on the IEEE doubles of two small integers
MoreThanHalf(matched, total) == 2 * matched > total

\* the near-repeat test
NearRepeat(tailLower, incomingLower) ==
  LET incomingWords == SplitWords(incomingLower)
  IN  /\ Len(incomingWords) >= NgramSize
      /\ LET ngrams == Ngrams(incomingWords)
         IN  Len(ngrams) > 0 /\ MoreThanHalf(Matched(ngrams, tailLower), Len(ngrams))

\* a slip: equality with the tail instead of containment in it
PureRepeatEqual(tailLower, incomingLower) == tailLower = incomingLower

\* the pure-repeat test: tailLower.includes(incomingLower)
PureRepeat(tailLower, incomingLower) == Includes(tailLower, incomingLower)

\* a slip: the loop stops at the first, that is the shortest, match
BestOverlapFirst(tail, newText) ==
  LET tailLower == ToLowerCase(tail)
      incomingLower == ToLowerCase(newText)
      maxCheck == Min(Len(tail), Len(newText))
      hits == {len \in MinOverlap..maxCheck :
                 StartsWith(incomingLower, SliceLast(tailLower, len))}
  IN  IF hits = {} THEN 0 ELSE CHOOSE len \in hits : \A other \in hits : other >= len

\* a slip: the loop runs while len < maxCheck
BestOverlapExclusive(tail, newText) ==
  LET tailLower == ToLowerCase(tail)
      incomingLower == ToLowerCase(newText)
      maxCheck == Min(Len(tail), Len(newText))
      hits == {len \in MinOverlap..(maxCheck - 1) :
                 StartsWith(incomingLower, SliceLast(tailLower, len))}
  IN  IF hits = {} THEN 0 ELSE CHOOSE len \in hits : \A other \in hits : other <= len

\* the loop over len = MinOverlap .. maxCheck keeps the last, that is the longest, match
BestOverlap(tail, newText) ==
  LET tailLower == ToLowerCase(tail)
      incomingLower == ToLowerCase(newText)
      maxCheck == Min(Len(tail), Len(newText))
      hits == {len \in MinOverlap..maxCheck :
                 StartsWith(incomingLower, SliceLast(tailLower, len))}
  IN  IF hits = {} THEN 0 ELSE CHOOSE len \in hits : \A other \in hits : other <= len

\* a slip: the two negations dropped
NeedsSpaceInverted(prev, unique) == EndsWithSpace(prev) /\ StartsWith(unique, <<" ">>)

\* needsSpace
NeedsSpace(prev, unique) == ~EndsWithSpace(prev) /\ ~StartsWith(unique, <<" ">>)

\* a slip: the overlapping end of the transcript is replaced by the fragment
MergeReplacingOverlap(prev, text) ==
  LET newText == Trim(text)
      tail == TailOf(prev)
      tailLower == ToLowerCase(tail)
      incomingLower == ToLowerCase(newText)
  IN  IF Len(prev) = 0 THEN newText
      ELSE IF PureRepeat(tailLower, incomingLower) THEN prev
      ELSE IF NearRepeat(tailLower, incomingLower) THEN prev
      ELSE LET bestOverlap == BestOverlap(tail, newText)
           IN  IF bestOverlap > 0
                 THEN Slice(prev, 0, Len(prev) - bestOverlap) \o newText
                 ELSE prev \o (IF NeedsSpace(prev, newText) THEN <<" ">> ELSE <<>>)
                        \o newText

\* the whole updater: prev and the raw result text give the next transcript
MergeFragment(prev, text) ==
  LET newText == Trim(text)
      tail == TailOf(prev)
      tailLower == ToLowerCase(tail)
      incomingLower == ToLowerCase(newText)
  IN  IF Len(prev) = 0 THEN newText
      ELSE IF PureRepeat(tailLower, incomingLower) THEN prev
      ELSE IF NearRepeat(tailLower, incomingLower) THEN prev
      ELSE LET bestOverlap == BestOverlap(tail, newText)
               unique == IF bestOverlap > 0 THEN Trim(SliceFrom(newText, bestOverlap))
                         ELSE newText
           IN  IF unique = <<>> THEN prev
               ELSE prev \o (IF NeedsSpace(prev, unique) THEN <<" ">> ELSE <<>>) \o unique

(***************************************************************************)
(* Sentence endings and the clarify request of tryClarify                  *)
(***************************************************************************)
SentenceTerminators == {".", "!", "?"}

\* findSentenceEndings: the end offset of every maximal run matched by /[.!?]+/g
RECURSIVE FindEndingsFrom(_, _)
FindEndingsFrom(text, i) ==
  IF i > Len(text) THEN <<>>
  ELSE IF text[i] \in SentenceTerminators
            /\ (i = Len(text) \/ text[i + 1] \notin SentenceTerminators)
         THEN <<i>> \o FindEndingsFrom(text, i + 1)
         ELSE FindEndingsFrom(text, i + 1)

FindSentenceEndings(text) == FindEndingsFrom(text, 1)

NoRequest == [issue |-> FALSE, absoluteStart |-> 0, absoluteEnd |-> 0, textToSend |-> <<>>]

\* a slip: the check forgets that a call is in flight
SkippedWhenDisabled(s, clarifying) == ~s.clarifyEnabled

\* the early return of tryClarify: clarification is off, or a call is in flight
Skipped(s, clarifying) == ~s.clarifyEnabled \/ clarifying

\* tryClarify from its first line to the fetch: the request it issues, or none
ClarifyRequest(s, clarifying, currentText, clarifiedUpTo) ==
  IF Skipped(s, clarifying) THEN NoRequest
  ELSE LET unclarified == SliceFrom(currentText, clarifiedUpTo)
           endings == FindSentenceEndings(unclarified)
       IN  IF Len(endings) < s.clarifySentenceCount THEN NoRequest
           ELSE LET endIdx == endings[s.clarifySentenceCount]
                    textToSend == Trim(Slice(unclarified, 0, endIdx))
                IN  IF textToSend = <<>> THEN NoRequest
                    ELSE [issue |-> TRUE,
                          absoluteStart |-> clarifiedUpTo,
                          absoluteEnd |-> clarifiedUpTo + endIdx,
                          textToSend |-> textToSend]

\* the comparison of the setTranscript updater of tryClarify
RangeUnchanged(prev, u) ==
  Trim(Slice(prev, u.absoluteStart, u.absoluteEnd)) = u.textToSend

\* a slip: the transcript is rebuilt from the text as it was when the call was made,
\* so what was merged behind the range since then is dropped
ClarifyUpdaterDropsRest(prev, upTo, u) ==
  IF ~RangeUnchanged(prev, u) THEN [transcript |-> prev, clarifiedUpTo |-> upTo]
  ELSE [transcript |-> Slice(prev, 0, u.absoluteStart) \o u.text,
        clarifiedUpTo |-> u.absoluteStart + Len(u.text)]

\* a slip: the cursor is moved to the end of the range that was sent
ClarifyUpdaterKeepsEnd(prev, upTo, u) ==
  IF ~RangeUnchanged(prev, u) THEN [transcript |-> prev, clarifiedUpTo |-> upTo]
  ELSE [transcript |-> Slice(prev, 0, u.absoluteStart) \o u.text
                         \o SliceFrom(prev, u.absoluteEnd),
        clarifiedUpTo |-> u.absoluteEnd]

\* the setTranscript updater of tryClarify: next transcript and next clarifiedUpToRef
ClarifyUpdater(prev, upTo, u) ==
  IF ~RangeUnchanged(prev, u) THEN [transcript |-> prev, clarifiedUpTo |-> upTo]
  ELSE LET before == Slice(prev, 0, u.absoluteStart)
           after == SliceFrom(prev, u.absoluteEnd)
       IN  [transcript |-> before \o u.text \o after,
            clarifiedUpTo |-> Len(before \o u.text)]

\* POST /api/clarify: the corrected text is the model's content trimmed, or the input
ClarifyRoute(text, content) ==
  LET clarified == Trim(content)
  IN  IF clarified = <<>> THEN text ELSE clarified

(***************************************************************************)
(* React state updates: setTranscript queues an update; the next render    *)
(* applies the queued updates in order                                     *)
(***************************************************************************)
MergeUpdate(text) ==
  [kind |-> "merge", text |-> text, absoluteStart |-> 0, absoluteEnd |-> 0,
   textToSend |-> <<>>, sliced |-> <<>>]
ClarifyUpdate(call, clarifiedText) ==
  [kind |-> "clarify", text |-> clarifiedText, absoluteStart |-> call.absoluteStart,
   absoluteEnd |-> call.absoluteEnd, textToSend |-> call.textToSend,
   sliced |-> call.sliced]
SetEmptyUpdate ==
  [kind |-> "set", text |-> <<>>, absoluteStart |-> 0, absoluteEnd |-> 0,
   textToSend |-> <<>>, sliced |-> <<>>]

\* the next transcript and clarifiedUpToRef that one queued update computes
UpdateResult(prev, upTo, u) ==
  IF u.kind = "merge"
    THEN [transcript |-> MergeFragment(prev, u.text), clarifiedUpTo |-> upTo]
  ELSE IF u.kind = "clarify"
    THEN ClarifyUpdater(prev, upTo, u)
  ELSE [transcript |-> u.text, clarifiedUpTo |-> upTo]

\* one queued update applied to the state the render has computed so far; log is
\* history: what every updater of this render was given and returned
ApplyUpdate(st, u) ==
  LET out == UpdateResult(st.transcript, st.clarifiedUpTo, u)
  IN  [transcript |-> out.transcript,
       clarifiedUpTo |-> out.clarifiedUpTo,
       log |-> Append(st.log, [update |-> u,
                               prev |-> st.transcript,
                               prevUpTo |-> st.clarifiedUpTo,
                               next |-> out.transcript,
                               nextUpTo |-> out.clarifiedUpTo])]

RECURSIVE ApplyUpdates(_, _)
ApplyUpdates(st, updates) ==
  IF updates = <<>> THEN st
  ELSE ApplyUpdates(ApplyUpdate(st, Head(updates)), Tail(updates))

(***************************************************************************)
(* ChunkedAudioRecorder.  A sample is an integer number of thousandths, so *)
(* 1000 is full scale and the default silence threshold 0.005 is 5.        *)
(***************************************************************************)
SAMPLE_RATE == 16000
DefaultSilenceThreshold == 5

\* integer division rounding toward zero, the conversion DataView.setInt16 applies
TruncDiv(a, b) == IF a >= 0 THEN a \div b ELSE -((-a) \div b)

\* a slip: a sample is scaled without being clamped first
EncodeSampleUnclamped(x) ==
  IF x < 0 THEN TruncDiv(x * 32768, 1000) ELSE TruncDiv(x * 32767, 1000)

\* one sample of encodeWav: clamp to [-1, 1], scale by 0x8000 or 0x7fff
EncodeSample(x) ==
  LET s == Max(-1000, Min(1000, x))
  IN  IF s < 0 THEN TruncDiv(s * 32768, 1000) ELSE TruncDiv(s * 32767, 1000)

\* encodeWav: the header fields and the 16-bit samples of the container
EncodeWav(samples, sampleRate) ==
  [riffSize |-> 36 + Len(samples) * 2,
   fmtSize |-> 16,
   format |-> 1,
   channels |-> 1,
   sampleRate |-> sampleRate,
   byteRate |-> sampleRate * 2,
   blockAlign |-> 2,
   bitsPerSample |-> 16,
   dataSize |-> Len(samples) * 2,
   byteLength |-> 44 + Len(samples) * 2,
   data |-> [i \in 1..Len(samples) |-> EncodeSample(samples[i])]]

\* str.charCodeAt(i) for the characters of the four tags
CharCode(c) ==
  CASE c = "R" -> 82 [] c = "I" -> 73 [] c = "F" -> 70 [] c = "W" -> 87 [] c = "A" -> 65
    [] c = "V" -> 86 [] c = "E" -> 69 [] c = "f" -> 102 [] c = "m" -> 109 [] c = "t" -> 116
    [] c = " " -> 32 [] c = "d" -> 100 [] c = "a" -> 97

\* writeString: one byte for each character
WriteString(str) == [i \in 1..Len(str) |-> CharCode(str[i])]

\* a slip: the bytes are stored most significant first
Uint32BE(v) ==
  <<(v \div 16777216) % 256, (v \div 65536) % 256, (v \div 256) % 256, v % 256>>

\* view.setUint32(offset, v, true): the four low bytes of v, least significant first
Uint32LE(v) ==
  <<v % 256, (v \div 256) % 256, (v \div 65536) % 256, (v \div 16777216) % 256>>

\* view.setUint16(offset, v, true)
Uint16LE(v) == <<v % 256, (v \div 256) % 256>>

\* view.setInt16(offset, v, true): v modulo 2^16 in two's complement
Int16LE(v) == Uint16LE(v % 65536)

\* a DataView write: the bytes stored from offset on, the rest of the buffer kept
WriteAt(buffer, offset, bytes) ==
  [i \in 1..Len(buffer) |->
     IF i > offset /\ i <= offset + Len(bytes) THEN bytes[i - offset] ELSE buffer[i]]

RECURSIVE ApplyWrites(_, _)
ApplyWrites(buffer, writes) ==
  IF writes = <<>> THEN buffer
  ELSE ApplyWrites(WriteAt(buffer, Head(writes)[1], Head(writes)[2]), Tail(writes))

\* encodeWav, byte by byte: new ArrayBuffer(44 + numSamples * 2), the header writes at
\* their offsets, then the loop that stores sample i at offset 44 + 2 i
EncodeWavBytes(samples, sampleRate) ==
  LET numSamples == Len(samples)
      header ==
        << <<0, WriteString(<<"R","I","F","F">>)>>, <<4, Uint32LE(36 + numSamples * 2)>>,
           <<8, WriteString(<<"W","A","V","E">>)>>,
           <<12, WriteString(<<"f","m","t"," ">>)>>, <<16, Uint32LE(16)>>,
           <<20, Uint16LE(1)>>, <<22, Uint16LE(1)>>, <<24, Uint32LE(sampleRate)>>,
           <<28, Uint32LE(sampleRate * 2)>>, <<32, Uint16LE(2)>>, <<34, Uint16LE(16)>>,
           <<36, WriteString(<<"d","a","t","a">>)>>, <<40, Uint32LE(numSamples * 2)>> >>
      loop == [i \in 1..numSamples |->
                 <<44 + 2 * (i - 1), Int16LE(EncodeSample(samples[i]))>>]
  IN  ApplyWrites([i \in 1..(44 + numSamples * 2) |-> 0], header \o loop)

\* the constructor: fields as declared, with the given silence threshold
NewRecorder(silenceThreshold) ==
  [stream |-> FALSE, audioContext |-> FALSE, processor |-> FALSE, source |-> FALSE,
   chunks |-> <<>>, isActive |-> FALSE, intervalId |-> FALSE,
   silenceThreshold |-> silenceThreshold, lastSilentState |-> "null",
   awaitingMedia |-> FALSE, onaudioprocess |-> FALSE]

\* flush: the frames of this.chunks copied one after another into merged
RECURSIVE MergeChunks(_)
MergeChunks(chunks) ==
  IF chunks = <<>> THEN <<>> ELSE Head(chunks) \o MergeChunks(Tail(chunks))

RECURSIVE SumSquares(_)
SumSquares(merged) ==
  IF merged = <<>> THEN 0 ELSE Head(merged) * Head(merged) + SumSquares(Tail(merged))

\* a slip: a chunk exactly at the threshold counts as silent
IsSilentChunkInclusive(merged, silenceThreshold) ==
  SumSquares(merged) <= silenceThreshold * silenceThreshold * Len(merged)

\* Math.sqrt(sumSquares / merged.length) < silenceThreshold, for a non-empty chunk
\* and a non-negative threshold, decided on the squares
IsSilentChunk(merged, silenceThreshold) ==
  SumSquares(merged) < silenceThreshold * silenceThreshold * Len(merged)

SilentState(silent) == IF silent THEN "silent" ELSE "active"

\* a slip: every classified chunk is reported
SilenceReported(lastSilentState, isSilent) == TRUE

\* this.lastSilentState !== isSilent (onSilenceChange is always supplied by Home)
SilenceChanged(lastSilentState, isSilent) == lastSilentState # SilentState(isSilent)

\* a slip: the early return of flush is missing
BufferNeverEmpty(chunks) == FALSE

\* this.chunks.length === 0
BufferEmpty(chunks) == Len(chunks) = 0

\* a slip: the buffer is not replaced after it was merged
BufferKept(chunks) == chunks

\* this.chunks = []
BufferSwapped(chunks) == <<>>

\* flush: what one call does to the recorder and which callbacks it invokes;
\* contextOpen tells whether this.audioContext was still there to give the sample rate
Flush(rec) ==
  IF BufferEmpty(rec.chunks)
    THEN [rec |-> rec, flushed |-> FALSE, merged |-> <<>>, silent |-> FALSE,
          notified |-> FALSE, handed |-> FALSE, contextOpen |-> rec.audioContext]
    ELSE LET merged == MergeChunks(rec.chunks)
             isSilent == IsSilentChunk(merged, rec.silenceThreshold)
             change == SilenceChanged(rec.lastSilentState, isSilent)
         IN  [rec |-> [rec EXCEPT !.chunks = BufferSwapped(@),
                                  !.lastSilentState =
                                     IF change THEN SilentState(isSilent) ELSE @],
              flushed |-> TRUE, merged |-> merged, silent |-> isSilent,
              notified |-> change, handed |-> ~isSilent,
              contextOpen |-> rec.audioContext]

\* a slip: stop releases every resource without looking whether it is there
ReleasesUnguarded(rec) == {"processor", "source", "audioContext", "stream"}

\* stop: the resources whose release runs, one guard for each
\* (if (this.processor) ..., or resources.processor?.disconnect())
Releases(rec) == {res \in {"processor", "source", "audioContext", "stream"} : rec[res]}

\* a slip: stop releases the resources and forgets the buffered frames
StopWithoutFlush(rec) ==
  [rec |-> [rec EXCEPT !.isActive = FALSE, !.intervalId = FALSE, !.processor = FALSE,
                       !.source = FALSE, !.audioContext = FALSE, !.stream = FALSE],
   flushed |-> FALSE, merged |-> <<>>, silent |-> FALSE, notified |-> FALSE,
   handed |-> FALSE, contextOpen |-> FALSE]

\* stop: deactivate, cancel the timer, flush once, release every resource
Stop(rec) ==
  LET f == Flush([rec EXCEPT !.isActive = FALSE, !.intervalId = FALSE])
  IN  [f EXCEPT !.rec = [f.rec EXCEPT !.processor = FALSE, !.source = FALSE,
                                      !.audioContext = FALSE, !.stream = FALSE]]

(***************************************************************************)
(* Bounds and the inputs the environment draws from                        *)
(***************************************************************************)
MaxFrames == 3
MaxRecorders == 2
MaxClears == 1

Hello == <<"H","e","l","l","o">>
HelloThere == <<"H","e","l","l","o"," ","t","h","e","r","e">>
ThereFriend == <<"t","h","e","r","e"," ","f","r","i","e","n","d">>
HelloThereFriend ==
  <<"H","e","l","l","o"," ","t","h","e","r","e"," ","f","r","i","e","n","d">>
Yes == <<"Y","e","s",".">>
PaddedNo == <<" ","N","o","!","\n">>
Blank == <<" ">>

\* what the transcription oracle may answer for a chunk: a session of greetings, or
\* a session of short sentences
GreetingTexts == {<<>>, Hello, HelloThere, ThereFriend}
SentenceTexts == {Blank, Yes, PaddedNo}

\* what the chat model may answer to a clarify request for text
ClarifyContents(text) == {text, <<" ","O","h","."," ">>}

\* what one onaudioprocess event may carry: quiet and loud frames, or loud frames only
MixedFrames == {<<0>>, <<5>>}
LoudFrames == {<<8>>}

NoError == "null"
ConnectionIssue == "Connection issue. Some audio may have been lost."

\* the settings a session may have been saved with
DefaultSettings ==
  [clarifyEnabled |-> FALSE, clarifySentenceCount |-> 3, contextLength |-> 200,
   silenceThreshold |-> DefaultSilenceThreshold]
ClarifyEachSentence ==
  [DefaultSettings EXCEPT !.clarifyEnabled = TRUE, !.clarifySentenceCount = 1,
                          !.contextLength = 0]
ClarifyEachPair ==
  [DefaultSettings EXCEPT !.clarifyEnabled = TRUE, !.clarifySentenceCount = 2,
                          !.contextLength = 50]

\* The sessions explored.  A session fixes the saved settings, what the microphone
\* delivers, what the transcription oracle answers, and how much the user and the
\* microphone do: frames delivered, recorders started, transcripts cleared.
Sessions ==
  {[settings |-> DefaultSettings, frames |-> MixedFrames, texts |-> {Hello},
    maxFrames |-> MaxFrames, maxRecorders |-> 1, maxClears |-> 0],
   [settings |-> DefaultSettings, frames |-> MixedFrames, texts |-> {Hello},
    maxFrames |-> 3, maxRecorders |-> MaxRecorders, maxClears |-> 0],
   [settings |-> DefaultSettings, frames |-> LoudFrames, texts |-> GreetingTexts,
    maxFrames |-> MaxFrames, maxRecorders |-> 1, maxClears |-> MaxClears],
   [settings |-> ClarifyEachSentence, frames |-> LoudFrames, texts |-> {Yes, PaddedNo},
    maxFrames |-> 4, maxRecorders |-> 1, maxClears |-> 0],
   [settings |-> ClarifyEachPair, frames |-> LoudFrames, texts |-> SentenceTexts,
    maxFrames |-> 3, maxRecorders |-> 1, maxClears |-> MaxClears]}

(***************************************************************************)
(* State                                                                   *)
(***************************************************************************)
VARIABLES
  isRecording,       \* useState(false)
  isSilent,          \* useState(true)
  transcript,        \* useState(""), as of the last render
  pendingUpdates,    \* setTranscript calls not rendered yet, oldest first
  error,             \* useState(null)
  settings,          \* useState(settings)
  transcriptRef,     \* transcriptRef.current
  recorderRef,       \* recorderRef.current: 0 for null, else the recorder's number
  clarifiedUpToRef,  \* clarifiedUpToRef.current
  clarifyingRef,     \* clarifyingRef.current
  recorders,         \* every ChunkedAudioRecorder constructed, in order
  transcribeCalls,   \* /api/transcribe requests in flight
  clarifyCalls,      \* /api/clarify requests in flight
  callsIssued,       \* number of requests issued so far
  frameCount,        \* number of onaudioprocess events so far
  clearCount,        \* number of confirmed clears so far
  completions,       \* history: the texts of the successful transcriptions since the last clear
  flushLog,          \* history: one entry for every flush of a non-empty buffer
  renderLog,         \* history: the updaters the last render ran, with what they were given
  session            \* environment: the session explored, one of Sessions

homeVars ==
  <<isRecording, isSilent, transcript, pendingUpdates, error, settings, transcriptRef,
    recorderRef, clarifiedUpToRef, clarifyingRef>>
netVars == <<transcribeCalls, clarifyCalls, callsIssued>>
historyVars == <<completions, flushLog, renderLog, session>>
vars ==
  <<isRecording, isSilent, transcript, pendingUpdates, error, settings, transcriptRef,
    recorderRef, clarifiedUpToRef, clarifyingRef, recorders, transcribeCalls,
    clarifyCalls, callsIssued, frameCount, clearCount, completions, flushLog, renderLog,
    session>>

Init ==
  /\ session \in Sessions
  /\ settings = session.settings
  /\ isRecording = FALSE
  /\ isSilent = TRUE
  /\ transcript = <<>>
  /\ pendingUpdates = <<>>
  /\ error = NoError
  /\ transcriptRef = <<>>
  /\ recorderRef = 0
  /\ clarifiedUpToRef = 0
  /\ clarifyingRef = FALSE
  /\ recorders = <<>>
  /\ transcribeCalls = {}
  /\ clarifyCalls = {}
  /\ callsIssued = 0
  /\ frameCount = 0
  /\ clearCount = 0
  /\ completions = <<>>
  /\ flushLog = <<>>
  /\ renderLog = <<>>

(***************************************************************************)
(* Home: the chunk handler, from the recorder's onChunk to the fetch       *)
(***************************************************************************)
\* handleChunkRef.current up to the await: the request submitted for a chunk
TranscribeRequest(id, wavBlob, s, currentText) ==
  [id |-> id, audioBlob |-> wavBlob, prompt |-> SliceLast(currentText, s.contextLength)]

\* onChunk of one flush, as Home wired it: handleChunkRef.current up to its await
FlushEffects(r, f) ==
  /\ IF f.handed
       THEN /\ transcribeCalls' = transcribeCalls \cup
                 {TranscribeRequest(callsIssued + 1,
                                    EncodeWav(f.merged, SAMPLE_RATE),
                                    settings, transcriptRef)}
            /\ callsIssued' = callsIssued + 1
            /\ error' = NoError
       ELSE UNCHANGED <<transcribeCalls, callsIssued, error>>
  /\ flushLog' = IF f.flushed
                   THEN Append(flushLog, [recorder |-> r, samples |-> f.merged,
                                          silenceThreshold |->
                                            recorders[r].silenceThreshold,
                                          silent |-> f.silent,
                                          notified |-> f.notified, handed |-> f.handed,
                                          contextOpen |-> f.contextOpen,
                                          request |-> IF f.handed THEN callsIssued + 1 ELSE 0])
                   ELSE flushLog

(***************************************************************************)
(* Recorder actions                                                        *)
(***************************************************************************)
\* startRecording up to the await of getUserMedia inside recorder.start()
StartRecording ==
  /\ ~isRecording
  /\ Len(recorders) < session.maxRecorders
  /\ error' = NoError
  /\ isSilent' = TRUE
  /\ clarifiedUpToRef' = Len(transcriptRef)
  /\ recorders' = Append(recorders,
                         [NewRecorder(settings.silenceThreshold) EXCEPT !.awaitingMedia = TRUE])
  /\ UNCHANGED <<isRecording, transcript, pendingUpdates, settings, transcriptRef,
                 recorderRef, clarifyingRef, netVars, frameCount, clearCount, historyVars>>

\* getUserMedia resolves: the rest of start(), then the rest of startRecording
MediaGranted(r) ==
  /\ recorders[r].awaitingMedia
  /\ recorders' = [recorders EXCEPT ![r] =
       [@ EXCEPT !.awaitingMedia = FALSE, !.stream = TRUE, !.audioContext = TRUE,
                 !.source = TRUE, !.processor = TRUE, !.onaudioprocess = TRUE,
                 !.isActive = TRUE, !.intervalId = TRUE]]
  /\ recorderRef' = r
  /\ isRecording' = TRUE
  /\ UNCHANGED <<isSilent, transcript, pendingUpdates, error, settings, transcriptRef,
                 clarifiedUpToRef, clarifyingRef, netVars, frameCount, clearCount,
                 historyVars>>

\* a slip: start() marks the recorder active and arms the timer before it awaits
MediaDeniedTimerArmed(r) ==
  /\ recorders[r].awaitingMedia
  /\ recorders' = [recorders EXCEPT ![r] =
       [@ EXCEPT !.awaitingMedia = FALSE, !.isActive = TRUE, !.intervalId = TRUE]]
  /\ UNCHANGED <<homeVars, netVars, frameCount, clearCount, historyVars>>

\* getUserMedia rejects: start() throws, startRecording catches and shows a toast
MediaDenied(r) ==
  /\ recorders[r].awaitingMedia
  /\ recorders' = [recorders EXCEPT ![r].awaitingMedia = FALSE]
  /\ UNCHANGED <<homeVars, netVars, frameCount, clearCount, historyVars>>

\* a slip: the callback does not look at isActive
AcceptsAlways(rec) == TRUE

\* onaudioprocess buffers the frame unless !this.isActive
Accepts(rec) == rec.isActive

\* processor.onaudioprocess
AudioProcess(r, frame) ==
  /\ recorders[r].onaudioprocess
  /\ frameCount < session.maxFrames
  /\ frameCount' = frameCount + 1
  /\ recorders' = IF ~Accepts(recorders[r]) THEN recorders
                  ELSE [recorders EXCEPT ![r].chunks = Append(@, frame)]
  /\ UNCHANGED <<homeVars, netVars, clearCount, historyVars>>

\* the setInterval callback
TimerFlush(r) ==
  /\ recorders[r].intervalId
  /\ LET f == Flush(recorders[r])
     IN  /\ recorders' = [recorders EXCEPT ![r] = f.rec]
         /\ FlushEffects(r, f)
         \* onSilenceChange is (silent) => setIsSilent(silent)
         /\ isSilent' = IF f.notified THEN f.silent ELSE isSilent
  /\ UNCHANGED <<isRecording, transcript, pendingUpdates, settings, transcriptRef,
                 recorderRef, clarifiedUpToRef, clarifyingRef, clarifyCalls, frameCount,
                 clearCount, completions, renderLog, session>>

\* stopRecording
StopRecording ==
  /\ isRecording
  /\ IF recorderRef # 0
       THEN LET f == Stop(recorders[recorderRef])
            IN  /\ recorders' = [recorders EXCEPT ![recorderRef] = f.rec]
                /\ FlushEffects(recorderRef, f)
       ELSE UNCHANGED <<recorders, transcribeCalls, callsIssued, error, flushLog>>
  /\ recorderRef' = 0
  /\ isRecording' = FALSE
  /\ isSilent' = TRUE
  /\ UNCHANGED <<transcript, pendingUpdates, settings, transcriptRef, clarifiedUpToRef,
                 clarifyingRef, clarifyCalls, frameCount, clearCount, completions,
                 renderLog, session>>

(***************************************************************************)
(* Home: network completions, renders, clear                               *)
(***************************************************************************)
\* tryClarify called from the chunk handler: the fetch it issues, if any
TryClarify ==
  LET req == ClarifyRequest(settings, clarifyingRef, transcriptRef, clarifiedUpToRef)
  IN  IF req.issue
        THEN /\ clarifyingRef' = TRUE
             /\ clarifyCalls' = clarifyCalls \cup
                  {[id |-> callsIssued + 1,
                    absoluteStart |-> req.absoluteStart,
                    absoluteEnd |-> req.absoluteEnd,
                    textToSend |-> req.textToSend,
                    sliced |-> Slice(transcriptRef, req.absoluteStart, req.absoluteEnd),
                    issuedAfter |-> Len(completions) + 1]}
             /\ callsIssued' = callsIssued + 1
        ELSE UNCHANGED <<clarifyingRef, clarifyCalls, callsIssued>>

\* a slip: the text is tested before it is trimmed
HasTextUntrimmed(text) == text # <<>>

\* result.text && result.text.trim()
HasText(text) == text # <<>> /\ Trim(text) # <<>>

\* a slip: the handler merges into the transcript it read from transcriptRef and
\* sets the result, instead of handing React an updater
TranscribeOkFromRef(call, text) ==
  /\ call \in transcribeCalls
  /\ transcribeCalls' = transcribeCalls \ {call}
  /\ completions' = Append(completions, text)
  /\ IF HasText(text)
       THEN /\ pendingUpdates' =
                 Append(pendingUpdates,
                        [SetEmptyUpdate EXCEPT !.text = MergeFragment(transcriptRef, text)])
            /\ TryClarify
       ELSE UNCHANGED <<pendingUpdates, clarifyingRef, clarifyCalls, callsIssued>>
  /\ UNCHANGED <<isRecording, isSilent, transcript, error, settings, transcriptRef,
                 recorderRef, clarifiedUpToRef, recorders, frameCount, clearCount,
                 flushLog, renderLog, session>>

\* mutateAsync resolves with { text }: the rest of handleChunkRef.current
TranscribeOk(call, text) ==
  /\ call \in transcribeCalls
  /\ transcribeCalls' = transcribeCalls \ {call}
  /\ completions' = Append(completions, text)
  /\ IF HasText(text)
       THEN /\ pendingUpdates' = Append(pendingUpdates, MergeUpdate(text))
            /\ TryClarify
       ELSE UNCHANGED <<pendingUpdates, clarifyingRef, clarifyCalls, callsIssued>>
  /\ UNCHANGED <<isRecording, isSilent, transcript, error, settings, transcriptRef,
                 recorderRef, clarifiedUpToRef, recorders, frameCount, clearCount,
                 flushLog, renderLog, session>>

\* a slip: the handler submits the failed chunk again
TranscribeFailRetried(call) ==
  /\ call \in transcribeCalls
  /\ transcribeCalls' = (transcribeCalls \ {call}) \cup {[call EXCEPT !.id = callsIssued + 1]}
  /\ callsIssued' = callsIssued + 1
  /\ error' = ConnectionIssue
  /\ UNCHANGED <<isRecording, isSilent, transcript, pendingUpdates, settings,
                 transcriptRef, recorderRef, clarifiedUpToRef, clarifyingRef, recorders,
                 clarifyCalls, frameCount, clearCount, historyVars>>

\* mutateAsync rejects (fetch failed or the response was not ok)
TranscribeFail(call) ==
  /\ call \in transcribeCalls
  /\ transcribeCalls' = transcribeCalls \ {call}
  /\ error' = ConnectionIssue
  /\ UNCHANGED <<isRecording, isSilent, transcript, pendingUpdates, settings,
                 transcriptRef, recorderRef, clarifiedUpToRef, clarifyingRef, recorders,
                 clarifyCalls, callsIssued, frameCount, clearCount, historyVars>>

\* /api/clarify answers ok: the updater is queued, then the finally block runs
ClarifyOk(call, content) ==
  /\ call \in clarifyCalls
  /\ clarifyCalls' = clarifyCalls \ {call}
  /\ pendingUpdates' =
       Append(pendingUpdates, ClarifyUpdate(call, ClarifyRoute(call.textToSend, content)))
  /\ clarifyingRef' = FALSE
  /\ UNCHANGED <<isRecording, isSilent, transcript, error, settings, transcriptRef,
                 recorderRef, clarifiedUpToRef, recorders, transcribeCalls, callsIssued,
                 frameCount, clearCount, historyVars>>

\* a slip: the flag is cleared only on the path that got an answer
ClarifyFailKeepsFlag(call) ==
  /\ call \in clarifyCalls
  /\ clarifyCalls' = clarifyCalls \ {call}
  /\ UNCHANGED <<isRecording, isSilent, transcript, pendingUpdates, error, settings,
                 transcriptRef, recorderRef, clarifiedUpToRef, clarifyingRef, recorders,
                 transcribeCalls, callsIssued, frameCount, clearCount, historyVars>>

\* a slip: a failed call is handled like an answer that repeats the text sent
ClarifyFailReplaces(call) ==
  /\ call \in clarifyCalls
  /\ clarifyCalls' = clarifyCalls \ {call}
  /\ pendingUpdates' = Append(pendingUpdates, ClarifyUpdate(call, call.textToSend))
  /\ clarifyingRef' = FALSE
  /\ UNCHANGED <<isRecording, isSilent, transcript, error, settings, transcriptRef,
                 recorderRef, clarifiedUpToRef, recorders, transcribeCalls, callsIssued,
                 frameCount, clearCount, historyVars>>

\* /api/clarify answers not ok, or the fetch throws: only the finally block runs
ClarifyFail(call) ==
  /\ call \in clarifyCalls
  /\ clarifyCalls' = clarifyCalls \ {call}
  /\ clarifyingRef' = FALSE
  /\ UNCHANGED <<isRecording, isSilent, transcript, pendingUpdates, error, settings,
                 transcriptRef, recorderRef, clarifiedUpToRef, recorders, transcribeCalls,
                 callsIssued, frameCount, clearCount, historyVars>>

\* React renders Home: the queued setTranscript updates run in order
Render ==
  /\ pendingUpdates # <<>>
  /\ LET st == ApplyUpdates([transcript |-> transcript, clarifiedUpTo |-> clarifiedUpToRef,
                             log |-> <<>>], pendingUpdates)
     IN  /\ transcript' = st.transcript
         /\ clarifiedUpToRef' = st.clarifiedUpTo
         /\ renderLog' = st.log
  /\ pendingUpdates' = <<>>
  /\ UNCHANGED <<isRecording, isSilent, error, settings, transcriptRef, recorderRef,
                 clarifyingRef, recorders, netVars, frameCount, clearCount, completions,
                 flushLog, session>>

\* useEffect(() => { transcriptRef.current = transcript }, [transcript])
SyncTranscriptRef ==
  /\ transcriptRef # transcript
  /\ transcriptRef' = transcript
  /\ UNCHANGED <<isRecording, isSilent, transcript, pendingUpdates, error, settings,
                 recorderRef, clarifiedUpToRef, clarifyingRef, recorders, netVars,
                 frameCount, clearCount, historyVars>>

\* clearTranscript, confirmed; the button is rendered only for a non-empty transcript
ClearTranscript ==
  /\ transcript # <<>>
  /\ clearCount < session.maxClears
  /\ clearCount' = clearCount + 1
  /\ pendingUpdates' = Append(pendingUpdates, SetEmptyUpdate)
  /\ clarifiedUpToRef' = 0
  /\ completions' = <<>>
  /\ UNCHANGED <<isRecording, isSilent, transcript, error, settings, transcriptRef,
                 recorderRef, clarifyingRef, recorders, netVars, frameCount, flushLog,
                 renderLog, session>>

Next ==
  \/ StartRecording
  \/ \E r \in 1..Len(recorders) : MediaGranted(r)
  \/ \E r \in 1..Len(recorders) : MediaDenied(r)
  \/ \E r \in 1..Len(recorders), frame \in session.frames : AudioProcess(r, frame)
  \/ \E r \in 1..Len(recorders) : TimerFlush(r)
  \/ StopRecording
  \/ \E call \in transcribeCalls, text \in session.texts : TranscribeOk(call, text)
  \/ \E call \in transcribeCalls : TranscribeFail(call)
  \/ \E call \in clarifyCalls :
       \E content \in ClarifyContents(call.textToSend) : ClarifyOk(call, content)
  \/ \E call \in clarifyCalls : ClarifyFail(call)
  \/ Render
  \/ SyncTranscriptRef
  \/ ClearTranscript

Spec == Init /\ [][Next]_vars

(***************************************************************************)
(* The merge updater on its own: one queued merge of any of MergeFragments *)
(* into any of MergeTranscripts, applied by Render                         *)
(***************************************************************************)
Filler == [i \in 1..TailWindow |-> "x"]
Foo == <<"f","o","o">>
HelloWorld == <<"h","e","l","l","o"," ","w","o","r","l","d">>
QuickBrownFox ==
  <<"t","h","e"," ","q","u","i","c","k"," ","b","r","o","w","n"," ","f","o","x">>
\* more than TailWindow characters: "hello big world" lies before the window
LongTranscript ==
  <<"h","e","l","l","o"," ","b","i","g"," ","w","o","r","l","d"," ">> \o Filler
\* TailWindow + 1 characters: only the first lies before the window
OneBeyondWindow == <<"z">> \o Filler

HelloHello == <<"h","e","l","l","o"," ","h","e","l","l","o">>

\* transcripts the session can hold: empty, or text that does not end in white space
MergeTranscripts ==
  {<<>>, Foo, HelloWorld, QuickBrownFox, Hello, HelloThere, HelloHello, LongTranscript,
   OneBeyondWindow}

\* answers of the oracle that pass the non-empty test of the chunk handler
MergeFragments ==
  {HelloWorld,
   Hello,
   HelloThere,
   ThereFriend,
   <<"W","O","R","L","D">>,
   <<"b","r","o","w","n"," ","f","o","x"," ","j","u","m","p","s">>,
   <<"b","a","r"," ","b","a","z">>,
   <<" ","b","a","r"," ","b","a","z","\n">>,
   <<"w","o","r","l","d"," ","p","e","a","c","e">>,
   <<"o","r","l","d"," ","p","e","a","c","e">>,
   <<"q","u","i","c","k"," "," ","b","r","o","w","n","\t","f","o","x"," ","r","a","n">>,
   <<"T","h","e"," ","q","u","i","c","k"," ","b","r","o","w","n"," ","f","o","x"," ",
     "j","u","m","p","s">>,
   <<"h","e","l","l","o"," ","b","i","g"," ","w","o","r","l","d">>,
   <<"h","e","l","l","o"," ","h","e","l","l","o"," ","t","h","e","r","e">>,
   <<"z","x">>}

IdleSession ==
  [settings |-> DefaultSettings, frames |-> {}, texts |-> {},
   maxFrames |-> 0, maxRecorders |-> 0, maxClears |-> 0]

MergeInit ==
  /\ session = IdleSession
  /\ settings = session.settings
  /\ isRecording = FALSE
  /\ isSilent = TRUE
  /\ transcript \in MergeTranscripts
  /\ \E text \in MergeFragments : pendingUpdates = <<MergeUpdate(text)>>
  /\ error = NoError
  /\ transcriptRef = transcript
  /\ recorderRef = 0
  /\ clarifiedUpToRef = 0
  /\ clarifyingRef = FALSE
  /\ recorders = <<>>
  /\ transcribeCalls = {}
  /\ clarifyCalls = {}
  /\ callsIssued = 0
  /\ frameCount = 0
  /\ clearCount = 0
  /\ completions = <<>>
  /\ flushLog = <<>>
  /\ renderLog = <<>>

MergeNext ==
  \/ Render
  \/ SyncTranscriptRef

MergeSpec == MergeInit /\ [][MergeNext]_vars

(***************************************************************************)
(* The recorder on its own: every frame the microphone delivers carries its *)
(* arrival number, so that a frame can be recognised in the chunks; no      *)
(* transcription completes                                                  *)
(***************************************************************************)
MaxRecorderFrames == 4
FrameBase == 10

\* the k-th frame delivered: quiet (k) or loud (FrameBase + k)
NumberedFrames(k) == {<<k>>, <<FrameBase + k>>}

RecorderSession ==
  [settings |-> DefaultSettings, frames |-> {}, texts |-> {},
   maxFrames |-> MaxRecorderFrames, maxRecorders |-> 2, maxClears |-> 0]

RecorderInit ==
  /\ session = RecorderSession
  /\ settings = session.settings
  /\ isRecording = FALSE
  /\ isSilent = TRUE
  /\ transcript = <<>>
  /\ pendingUpdates = <<>>
  /\ error = NoError
  /\ transcriptRef = <<>>
  /\ recorderRef = 0
  /\ clarifiedUpToRef = 0
  /\ clarifyingRef = FALSE
  /\ recorders = <<>>
  /\ transcribeCalls = {}
  /\ clarifyCalls = {}
  /\ callsIssued = 0
  /\ frameCount = 0
  /\ clearCount = 0
  /\ completions = <<>>
  /\ flushLog = <<>>
  /\ renderLog = <<>>

RecorderNext ==
  \/ StartRecording
  \/ \E r \in 1..Len(recorders) : MediaGranted(r)
  \/ \E r \in 1..Len(recorders) : MediaDenied(r)
  \/ \E r \in 1..Len(recorders), frame \in NumberedFrames(frameCount + 1) :
       AudioProcess(r, frame)
  \/ \E r \in 1..Len(recorders) : TimerFlush(r)
  \/ StopRecording

RecorderSpec == RecorderInit /\ [][RecorderNext]_vars

(***************************************************************************)
(* The encoder: a started recorder whose microphone delivers samples from  *)
(* below -1 to above 1, and whose flushes encode the chunk byte by byte    *)
(***************************************************************************)
MaxEncoderFrames == 3

\* one-sample frames: beyond full scale, full scale, half scale, the smallest step, 0
EncoderFrames ==
  {<<-1500>>, <<-1000>>, <<-500>>, <<-1>>, <<0>>, <<1>>, <<500>>, <<1000>>, <<1500>>}

\* the rates the AudioContext asked for SAMPLE_RATE may report
SampleRates == {8000, SAMPLE_RATE, 44100, 48000}

EncoderSessions ==
  {[settings |-> DefaultSettings, frames |-> EncoderFrames, texts |-> {},
    maxFrames |-> MaxEncoderFrames, maxRecorders |-> 1, maxClears |-> 0,
    sampleRate |-> rate] : rate \in SampleRates}

\* Home after startRecording has resolved
EncoderInit ==
  /\ session \in EncoderSessions
  /\ settings = session.settings
  /\ isRecording = TRUE
  /\ isSilent = TRUE
  /\ transcript = <<>>
  /\ pendingUpdates = <<>>
  /\ error = NoError
  /\ transcriptRef = <<>>
  /\ recorderRef = 1
  /\ clarifiedUpToRef = 0
  /\ clarifyingRef = FALSE
  /\ recorders =
       <<[NewRecorder(settings.silenceThreshold) EXCEPT
            !.stream = TRUE, !.audioContext = TRUE, !.source = TRUE, !.processor = TRUE,
            !.onaudioprocess = TRUE, !.isActive = TRUE, !.intervalId = TRUE]>>
  /\ transcribeCalls = {}
  /\ clarifyCalls = {}
  /\ callsIssued = 0
  /\ frameCount = 0
  /\ clearCount = 0
  /\ completions = <<>>
  /\ flushLog = <<>>
  /\ renderLog = <<>>

\* the setInterval callback as far as encodeWav: the last chunk handed on is kept
\* with the bytes it was encoded to
EncodingFlush(r) ==
  /\ recorders[r].intervalId
  /\ LET f == Flush(recorders[r])
     IN  /\ f.flushed
         /\ recorders' = [recorders EXCEPT ![r] = f.rec]
         /\ isSilent' = IF f.notified THEN f.silent ELSE isSilent
         /\ flushLog' = IF f.handed
                          THEN <<[samples |-> f.merged, sampleRate |-> session.sampleRate,
                                  wav |-> EncodeWavBytes(f.merged, session.sampleRate)]>>
                          ELSE flushLog
  /\ UNCHANGED <<isRecording, transcript, pendingUpdates, error, settings, transcriptRef,
                 recorderRef, clarifiedUpToRef, clarifyingRef, netVars, frameCount,
                 clearCount, completions, renderLog, session>>

EncoderNext ==
  \/ \E r \in 1..Len(recorders), frame \in session.frames : AudioProcess(r, frame)
  \/ \E r \in 1..Len(recorders) : EncodingFlush(r)

EncoderSpec == EncoderInit /\ [][EncoderNext]_vars

(***************************************************************************)
(* A session with failing services: a transcription call may resolve or    *)
(* reject, and every call to /api/clarify fails                            *)
(***************************************************************************)
MaxFailureFrames == 3

FailureSession ==
  [settings |-> ClarifyEachSentence, frames |-> LoudFrames, texts |-> {Yes, PaddedNo},
   maxFrames |-> MaxFailureFrames, maxRecorders |-> 1, maxClears |-> 0]

FailureInit ==
  /\ session = FailureSession
  /\ settings = session.settings
  /\ isRecording = FALSE
  /\ isSilent = TRUE
  /\ transcript = <<>>
  /\ pendingUpdates = <<>>
  /\ error = NoError
  /\ transcriptRef = <<>>
  /\ recorderRef = 0
  /\ clarifiedUpToRef = 0
  /\ clarifyingRef = FALSE
  /\ recorders = <<>>
  /\ transcribeCalls = {}
  /\ clarifyCalls = {}
  /\ callsIssued = 0
  /\ frameCount = 0
  /\ clearCount = 0
  /\ completions = <<>>
  /\ flushLog = <<>>
  /\ renderLog = <<>>

FailureNext ==
  \/ StartRecording
  \/ \E r \in 1..Len(recorders) : MediaGranted(r)
  \/ \E r \in 1..Len(recorders), frame \in session.frames : AudioProcess(r, frame)
  \/ \E r \in 1..Len(recorders) : TimerFlush(r)
  \/ StopRecording
  \/ \E call \in transcribeCalls, text \in session.texts : TranscribeOk(call, text)
  \/ \E call \in transcribeCalls : TranscribeFail(call)
  \/ \E call \in clarifyCalls : ClarifyFail(call)
  \/ Render
  \/ SyncTranscriptRef

FailureSpec == FailureInit /\ [][FailureNext]_vars

(***************************************************************************)
(* The transcription endpoints and the client's handling of their answers  *)
(***************************************************************************)
\* the messages of the routes and of the client
NoFileUploaded ==
  <<"N","o"," ","f","i","l","e"," ","u","p","l","o","a","d","e","d">>
TranscriptionFailed ==
  <<"T","r","a","n","s","c","r","i","p","t","i","o","n"," ","f","a","i","l","e","d">>
DiarizedTranscriptionFailed ==
  <<"D","i","a","r","i","z","e","d"," ","t","r","a","n","s","c","r","i","p","t","i","o",
    "n"," ","f","a","i","l","e","d">>
NotAvailableMessage ==
  <<"T","h","e"," ","s","p","e","a","k","e","r"," ","d","i","a","r","i","z","a","t","i",
    "o","n"," ","m","o","d","e","l"," ","(","g","p","t","-","4","o","-","t","r","a","n",
    "s","c","r","i","b","e","-","d","i","a","r","i","z","e",")"," ","i","s"," ","n","o",
    "t"," ","a","v","a","i","l","a","b","l","e"," ","t","h","r","o","u","g","h"," ","t",
    "h","e"," ","c","u","r","r","e","n","t"," ","A","P","I"," ","p","r","o","v","i","d",
    "e","r","."," ","P","l","e","a","s","e"," ","d","i","s","a","b","l","e"," ","d","i",
    "a","r","i","z","a","t","i","o","n"," ","i","n"," ","s","e","t","t","i","n","g","s",
    ".">>

\* what an exception thrown while the server handles an upload may say: nothing,
\* "Connection error.", "429 Rate limit reached", "404 Not Found",
\* "Unknown deployment", "The model does not exist"
UpstreamMessages ==
  {<<>>,
   <<"C","o","n","n","e","c","t","i","o","n"," ","e","r","r","o","r",".">>,
   <<"4","2","9"," ","R","a","t","e"," ","l","i","m","i","t"," ","r","e","a","c","h",
    "e","d">>,
   <<"4","0","4"," ","N","o","t"," ","F","o","u","n","d">>,
   <<"U","n","k","n","o","w","n"," ","d","e","p","l","o","y","m","e","n","t">>,
   <<"T","h","e"," ","m","o","d","e","l"," ","d","o","e","s"," ","n","o","t"," ","e",
    "x","i","s","t">>}

MODEL_NOT_AVAILABLE == "MODEL_NOT_AVAILABLE"
NoCode == "undefined"
NoResponse == [status |-> 0, json |-> FALSE, message |-> <<>>, code |-> NoCode]

\* what happens to the upload on the server: the service answers, or something throws
UpstreamOutcomes ==
  {[threw |-> FALSE, message |-> <<>>]} \cup
  {[threw |-> TRUE, message |-> m] : m \in UpstreamMessages}

\* a || b on strings
OrElse(a, b) == IF a # <<>> THEN a ELSE b

\* POST /api/transcribe
TranscribeRoute(hasFile, upstream) ==
  IF ~hasFile
    THEN [status |-> 400, json |-> TRUE, message |-> NoFileUploaded, code |-> NoCode]
    ELSE IF ~upstream.threw
      THEN [status |-> 200, json |-> TRUE, message |-> <<>>, code |-> NoCode]
      ELSE [status |-> 500, json |-> TRUE,
            message |-> OrElse(upstream.message, TranscriptionFailed), code |-> NoCode]

\* the catch of POST /api/transcribe-diarize: is the model missing at the provider
ModelMissing(msg) ==
  \/ Includes(msg, <<"4","0","4">>)
  \/ Includes(msg, <<"d","e","p","l","o","y","m","e","n","t">>)
  \/ Includes(msg, <<"d","o","e","s"," ","n","o","t"," ","e","x","i","s","t">>)

\* POST /api/transcribe-diarize
DiarizeRoute(hasFile, upstream) ==
  IF ~hasFile
    THEN [status |-> 400, json |-> TRUE, message |-> NoFileUploaded, code |-> NoCode]
    ELSE IF ~upstream.threw
      THEN [status |-> 200, json |-> TRUE, message |-> <<>>, code |-> NoCode]
      ELSE LET msg == OrElse(upstream.message, DiarizedTranscriptionFailed)
           IN  IF ModelMissing(msg)
                 THEN [status |-> 422, json |-> TRUE, message |-> NotAvailableMessage,
                       code |-> MODEL_NOT_AVAILABLE]
                 ELSE [status |-> 500, json |-> TRUE, message |-> msg, code |-> NoCode]

\* an answer that did not come from the routes: a proxy's page, not JSON
GatewayResponse == [status |-> 502, json |-> FALSE, message |-> <<>>, code |-> NoCode]

\* res.ok
Ok(res) == res.status >= 200 /\ res.status <= 299

Resolved == [settled |-> "resolved", class |-> "none", message |-> <<>>, code |-> NoCode]

\* fetchWithError: what the promise settles with for the answer res
FetchWithError(res, fallbackMessage) ==
  IF Ok(res) THEN Resolved
  ELSE LET errorMessage == IF res.json THEN OrElse(res.message, fallbackMessage)
                           ELSE fallbackMessage
           errorCode == IF res.json /\ res.code # NoCode THEN res.code ELSE ""
       IN  IF errorCode = MODEL_NOT_AVAILABLE
             THEN [settled |-> "rejected", class |-> "DiarizeModelError",
                   message |-> errorMessage, code |-> errorCode]
             ELSE [settled |-> "rejected", class |-> "Error", message |-> errorMessage,
                   code |-> NoCode]

\* the mutationFn of useTranscribeChunk that handles the answer inline
TranscribeChunkInline(res) ==
  IF Ok(res) THEN Resolved
  ELSE [settled |-> "rejected", class |-> "Error",
        message |-> IF res.json THEN OrElse(res.message, TranscriptionFailed)
                    ELSE TranscriptionFailed,
        code |-> NoCode]

\* the hooks: the endpoint each posts to and how it handles the answer
Hooks ==
  {[endpoint |-> "/api/transcribe", via |-> "inline"],
   [endpoint |-> "/api/transcribe", via |-> "fetchWithError"],
   [endpoint |-> "/api/transcribe-diarize", via |-> "fetchWithError"]}

\* what the mutation settles with
Settlement(call) ==
  IF call.via = "inline" THEN TranscribeChunkInline(call.response)
  ELSE FetchWithError(call.response,
                      IF call.endpoint = "/api/transcribe" THEN TranscriptionFailed
                      ELSE DiarizedTranscriptionFailed)

MaxExchanges == 2

ExchangeSession ==
  [settings |-> DefaultSettings, frames |-> {}, texts |-> {}, maxFrames |-> 0,
   maxRecorders |-> 0, maxClears |-> 0]

ExchangeInit ==
  /\ session = ExchangeSession
  /\ settings = session.settings
  /\ isRecording = FALSE
  /\ isSilent = TRUE
  /\ transcript = <<>>
  /\ pendingUpdates = <<>>
  /\ error = NoError
  /\ transcriptRef = <<>>
  /\ recorderRef = 0
  /\ clarifiedUpToRef = 0
  /\ clarifyingRef = FALSE
  /\ recorders = <<>>
  /\ transcribeCalls = {}
  /\ clarifyCalls = {}
  /\ callsIssued = 0
  /\ frameCount = 0
  /\ clearCount = 0
  /\ completions = <<>>
  /\ flushLog = <<>>
  /\ renderLog = <<>>

exchangeIdle ==
  <<isRecording, isSilent, transcript, pendingUpdates, error, settings, transcriptRef,
    recorderRef, clarifiedUpToRef, clarifyingRef, recorders, clarifyCalls, frameCount,
    clearCount, flushLog, renderLog, session>>

\* a hook posts an upload; the upload reaches the server with or without its file
Post(hook, hasFile) ==
  /\ callsIssued < MaxExchanges
  /\ transcribeCalls = {}
  /\ callsIssued' = callsIssued + 1
  /\ transcribeCalls' = {[id |-> callsIssued + 1, endpoint |-> hook.endpoint,
                           via |-> hook.via, hasFile |-> hasFile,
                           response |-> NoResponse]}
  /\ UNCHANGED <<exchangeIdle, completions>>

\* the route answers
RouteAnswers(call, upstream) ==
  /\ call \in transcribeCalls
  /\ call.response = NoResponse
  /\ transcribeCalls' = (transcribeCalls \ {call}) \cup
       {[call EXCEPT !.response =
           IF call.endpoint = "/api/transcribe"
             THEN TranscribeRoute(call.hasFile, upstream)
             ELSE DiarizeRoute(call.hasFile, upstream)]}
  /\ UNCHANGED <<exchangeIdle, callsIssued, completions>>

\* a proxy answers in the server's place
GatewayAnswers(call) ==
  /\ call \in transcribeCalls
  /\ call.response = NoResponse
  /\ transcribeCalls' = (transcribeCalls \ {call}) \cup
       {[call EXCEPT !.response = GatewayResponse]}
  /\ UNCHANGED <<exchangeIdle, callsIssued, completions>>

\* the answer arrives and the mutation settles
Settles(call) ==
  /\ call \in transcribeCalls
  /\ call.response # NoResponse
  /\ transcribeCalls' = transcribeCalls \ {call}
  /\ completions' = Append(completions, [call |-> call, outcome |-> Settlement(call)])
  /\ UNCHANGED <<exchangeIdle, callsIssued>>

ExchangeNext ==
  \/ \E hook \in Hooks, hasFile \in BOOLEAN : Post(hook, hasFile)
  \/ \E call \in transcribeCalls, upstream \in UpstreamOutcomes :
       RouteAnswers(call, upstream)
  \/ \E call \in transcribeCalls : GatewayAnswers(call)
  \/ \E call \in transcribeCalls : Settles(call)

ExchangeSpec == ExchangeInit /\ [][ExchangeNext]_vars

(***************************************************************************)
(* The settings dialog, the requests built from the settings, and the      *)
(* calls the server makes to the oracle for them                           *)
(***************************************************************************)
MaxServiceCalls == 2

\* a field that is not there
Omitted == "undefined"

\* the values of LANGUAGES
Languages ==
  {"auto", "pl", "en", "de", "fr", "es", "it", "pt", "nl", "cs", "uk", "ru", "ja", "zh",
   "ko"}

\* DEFAULT_SETTINGS, the fields the requests and the dialog's rule depend on
DialogDefaults ==
  [language |-> "pl", diarizeEnabled |-> FALSE, clarifyEnabled |-> FALSE,
   translatorEnabled |-> FALSE, openaiApiKey |-> <<>>]

\* if (language) formData.append("language", language)
FormLanguage(language) == IF language # "" THEN language ELSE Omitted

\* a slip: the language is always passed on
RouteLanguageAlways(field) == IF field \in {Omitted, ""} THEN "pl" ELSE field

\* the routes: language = req.body.language || "pl", and
\* if (language !== "auto") transcribeParams.language = language
RouteLanguage(field) ==
  LET language == IF field \in {Omitted, ""} THEN "pl" ELSE field
  IN  IF language # "auto" THEN language ELSE Omitted

ServiceSession ==
  [settings |-> DialogDefaults, frames |-> {}, texts |-> {}, maxFrames |-> 0,
   maxRecorders |-> 0, maxClears |-> 0]

\* Home with the default settings, before anything was recorded
ServiceInit ==
  /\ session = ServiceSession
  /\ settings = session.settings
  /\ isRecording = FALSE
  /\ isSilent = TRUE
  /\ transcript = <<>>
  /\ pendingUpdates = <<>>
  /\ error = NoError
  /\ transcriptRef = <<>>
  /\ recorderRef = 0
  /\ clarifiedUpToRef = 0
  /\ clarifyingRef = FALSE
  /\ recorders = <<>>
  /\ transcribeCalls = {}
  /\ clarifyCalls = {}
  /\ callsIssued = 0
  /\ frameCount = 0
  /\ clearCount = 0
  /\ completions = <<>>
  /\ flushLog = <<>>
  /\ renderLog = <<>>

serviceIdle ==
  <<isRecording, isSilent, transcript, pendingUpdates, error, transcriptRef, recorderRef,
    clarifiedUpToRef, clarifyingRef, recorders, clarifyCalls, frameCount, clearCount,
    flushLog, renderLog, session>>

\* a slip: the control's change is applied and nothing more
UpdateAsAsked(partial) ==
  /\ settings' = partial @@ settings
  /\ UNCHANGED <<serviceIdle, netVars, completions>>

\* update of the dialog, and Home's onChange={setSettings}: partial is the control's
\* change, a record of the fields it sets
Update(partial) ==
  /\ settings' =
       LET next == partial @@ settings
       IN  IF /\ "translatorEnabled" \in DOMAIN partial
              /\ partial.translatorEnabled
              /\ ~settings.translatorEnabled
             THEN [next EXCEPT !.clarifyEnabled = TRUE]
             ELSE next
  /\ UNCHANGED <<serviceIdle, netVars, completions>>

\* a chunk is posted by useTranscribeChunk or useDiarizeChunk with the language of
\* the settings; sessionLanguage remembers that language
PostChunk(endpoint) ==
  /\ callsIssued < MaxServiceCalls
  /\ transcribeCalls = {}
  /\ callsIssued' = callsIssued + 1
  /\ transcribeCalls' = {[id |-> callsIssued + 1, endpoint |-> endpoint,
                           language |-> FormLanguage(settings.language),
                           sessionLanguage |-> settings.language]}
  /\ UNCHANGED <<serviceIdle, settings, clarifyCalls, completions>>

\* the route builds transcribeParams and calls the oracle; the last call is kept
CallOracle(call) ==
  /\ call \in transcribeCalls
  /\ transcribeCalls' = transcribeCalls \ {call}
  /\ completions' = <<[call |-> call, language |-> RouteLanguage(call.language)]>>
  /\ UNCHANGED <<serviceIdle, settings, clarifyCalls, callsIssued>>

LanguageNext ==
  \/ \E v \in Languages : Update([language |-> v])
  \/ \E endpoint \in {"/api/transcribe", "/api/transcribe-diarize"} : PostChunk(endpoint)
  \/ \E call \in transcribeCalls : CallOracle(call)

LanguageSpec == ServiceInit /\ [][LanguageNext]_vars

(***************************************************************************)
(* The diarized route: the segments it answers with                        *)
(***************************************************************************)
\* what the oracle may return for a diarized call: up to two segments, with or
\* without a speaker, blank or padded or plain text, and a flat text
OracleSegments ==
  [speaker : {"", "B"}, text : {Blank, Yes, PaddedNo}, start : {0, 1}, end : {2}]
DiarizedAnswers ==
  [segments : {<<>>} \cup {<<a>> : a \in OracleSegments}
                \cup {<<a, b>> : a, b \in OracleSegments},
   text : {<<>>, Blank, Yes, PaddedNo}]

\* the loop over response.segments: the segments whose trimmed text is not empty,
\* with speaker || "A", the trimmed text, start || 0 and end || 0
RECURSIVE DiarizedSegments(_)
DiarizedSegments(segments) ==
  IF segments = <<>> THEN <<>>
  ELSE LET seg == Head(segments)
           text == Trim(seg.text)
       IN  (IF text # <<>>
              THEN <<[speaker |-> IF seg.speaker # "" THEN seg.speaker ELSE "A",
                      text |-> text, start |-> seg.start, end |-> seg.end]>>
              ELSE <<>>)
             \o DiarizedSegments(Tail(segments))

\* a slip: the flat text is added whenever there is one
FallbackAlways(diarizedSegments, flatText) == flatText # <<>>

\* diarizedSegments.length === 0 && response.text
FallbackNeeded(diarizedSegments, flatText) ==
  Len(diarizedSegments) = 0 /\ flatText # <<>>

\* the texts of the segments
SegmentTexts(segments) == [i \in 1..Len(segments) |-> segments[i].text]

\* res.json({ segments: diarizedSegments, text: plainText })
DiarizeResponse(answer) ==
  LET kept == DiarizedSegments(answer.segments)
      diarizedSegments ==
        IF FallbackNeeded(kept, answer.text)
          THEN Append(kept, [speaker |-> "A", text |-> Trim(answer.text), start |-> 0,
                             end |-> 0])
          ELSE kept
  IN  [segments |-> diarizedSegments, text |-> JoinSpace(SegmentTexts(diarizedSegments))]

\* the oracle answers a diarized call and the route responds; the last is kept
OracleDiarizes(call, answer) ==
  /\ call \in transcribeCalls
  /\ transcribeCalls' = transcribeCalls \ {call}
  /\ completions' = <<[call |-> call, answer |-> answer,
                       response |-> DiarizeResponse(answer)]>>
  /\ UNCHANGED <<serviceIdle, settings, clarifyCalls, callsIssued>>

DiarizeNext ==
  \/ PostChunk("/api/transcribe-diarize")
  \/ \E call \in transcribeCalls, answer \in DiarizedAnswers : OracleDiarizes(call, answer)

DiarizeSpec == ServiceInit /\ [][DiarizeNext]_vars

(***************************************************************************)
(* The caller's key: the header the hooks send and the client the server   *)
(* picks for a request                                                     *)
(***************************************************************************)
\* the keys a caller may have entered: none, a blank one, a key, a key typed with a
\* leading space
ApiKeys == {<<>>, <<" ">>, <<"u","1">>, <<" ","u","2">>}

\* the apiKey of defaultOpenai: the key of the server's environment
DefaultKey == <<"d","0">>

\* buildHeaders: the headers as name and value pairs
BuildHeaders(apiKey) == IF apiKey # <<>> THEN {<<"X-OpenAI-Key", apiKey>>} ELSE {}

\* a slip: the client made for a caller's key is kept as the default
GetOpenAIKeepsClient(headers, defaultOpenai) ==
  LET userKeys == {h[2] : h \in {g \in headers : g[1] = "X-OpenAI-Key"}}
      client == IF \E userKey \in userKeys : Trim(userKey) # <<>>
                  THEN Trim(CHOOSE userKey \in userKeys : Trim(userKey) # <<>>)
                  ELSE defaultOpenai
  IN  [client |-> client, defaultOpenai |-> client]

\* getOpenAI: the key of the client returned for the request's headers, and the
\* server's default client afterwards
GetOpenAI(headers, defaultOpenai) ==
  LET userKeys == {h[2] : h \in {g \in headers : g[1] = "X-OpenAI-Key"}}
  IN  [client |-> IF \E userKey \in userKeys : Trim(userKey) # <<>>
                    THEN Trim(CHOOSE userKey \in userKeys : Trim(userKey) # <<>>)
                    ELSE defaultOpenai,
       defaultOpenai |-> defaultOpenai]

\* a hook posts a chunk for a caller whose key is apiKey
PostWithKey(endpoint, apiKey) ==
  /\ callsIssued < MaxServiceCalls + 1
  /\ transcribeCalls = {}
  /\ callsIssued' = callsIssued + 1
  /\ transcribeCalls' =
       {[id |-> callsIssued + 1, endpoint |-> endpoint, apiKey |-> apiKey,
         headers |-> BuildHeaders(apiKey),
         body |-> {<<"file", <<"w","a","v">>>>, <<"language", <<"p","l">>>>}]}
  /\ UNCHANGED <<serviceIdle, settings, clarifyCalls, completions>>

\* the route serves the request with the client of getOpenAI(req); completions
\* keeps, for each request served, that client and the default client afterwards
ServeRequest(call) ==
  /\ call \in transcribeCalls
  /\ transcribeCalls' = transcribeCalls \ {call}
  /\ LET defaultOpenai == IF completions = <<>> THEN DefaultKey
                          ELSE completions[Len(completions)].defaultOpenai
         got == GetOpenAI(call.headers, defaultOpenai)
     IN  completions' = Append(completions, [call |-> call, client |-> got.client,
                                             defaultOpenai |-> got.defaultOpenai])
  /\ UNCHANGED <<serviceIdle, settings, clarifyCalls, callsIssued>>

CredentialNext ==
  \/ \E endpoint \in {"/api/transcribe", "/api/transcribe-diarize"}, apiKey \in ApiKeys :
       PostWithKey(endpoint, apiKey)
  \/ \E call \in transcribeCalls : ServeRequest(call)

CredentialSpec == ServiceInit /\ [][CredentialNext]_vars

(***************************************************************************)
(* The settings dialog on its own                                          *)
(***************************************************************************)
\* what the controls can ask of update when the dialog shows the settings s: the
\* language select, the key input, and the three switches, each switch giving the
\* opposite of what it shows; the clarify switch is disabled while translation is on
DialogChanges(s) ==
  {[language |-> v] : v \in Languages}
    \cup {[openaiApiKey |-> k] : k \in ApiKeys}
    \cup {[diarizeEnabled |-> ~s.diarizeEnabled]}
    \cup {[translatorEnabled |-> ~s.translatorEnabled]}
    \cup (IF s.translatorEnabled THEN {} ELSE {[clarifyEnabled |-> ~s.clarifyEnabled]})

DialogNext == \E partial \in DialogChanges(settings) : Update(partial)

DialogSpec == ServiceInit /\ [][DialogNext]_vars

(***************************************************************************)
(* One recording from start to stop with every service answering: chunks   *)
(* are transcribed while later ones are still being recorded, and          *)
(* clarification, where it is on, succeeds or fails                        *)
(***************************************************************************)
MaxDictationFrames == 3

DictationSessions ==
  {[settings |-> DefaultSettings, frames |-> LoudFrames, texts |-> GreetingTexts,
    maxFrames |-> MaxDictationFrames, maxRecorders |-> 1, maxClears |-> 0],
   [settings |-> ClarifyEachSentence, frames |-> LoudFrames, texts |-> {Yes, PaddedNo},
    maxFrames |-> MaxDictationFrames, maxRecorders |-> 1, maxClears |-> 0],
   [settings |-> ClarifyEachPair, frames |-> LoudFrames, texts |-> {Yes, PaddedNo},
    maxFrames |-> MaxDictationFrames, maxRecorders |-> 1, maxClears |-> 0]}

DictationInit ==
  /\ session \in DictationSessions
  /\ settings = session.settings
  /\ isRecording = FALSE
  /\ isSilent = TRUE
  /\ transcript = <<>>
  /\ pendingUpdates = <<>>
  /\ error = NoError
  /\ transcriptRef = <<>>
  /\ recorderRef = 0
  /\ clarifiedUpToRef = 0
  /\ clarifyingRef = FALSE
  /\ recorders = <<>>
  /\ transcribeCalls = {}
  /\ clarifyCalls = {}
  /\ callsIssued = 0
  /\ frameCount = 0
  /\ clearCount = 0
  /\ completions = <<>>
  /\ flushLog = <<>>
  /\ renderLog = <<>>

DictationNext ==
  \/ StartRecording
  \/ \E r \in 1..Len(recorders) : MediaGranted(r)
  \/ \E r \in 1..Len(recorders), frame \in session.frames : AudioProcess(r, frame)
  \/ \E r \in 1..Len(recorders) : TimerFlush(r)
  \/ StopRecording
  \/ \E call \in transcribeCalls, text \in session.texts : TranscribeOk(call, text)
  \/ \E call \in clarifyCalls :
       \E content \in ClarifyContents(call.textToSend) : ClarifyOk(call, content)
  \/ \E call \in clarifyCalls : ClarifyFail(call)
  \/ Render
  \/ SyncTranscriptRef

DictationSpec == DictationInit /\ [][DictationNext]_vars

\* The same recording with what the platform guarantees: React renders queued
\* updates (the queue is empty again and again) and runs the effect, the timer
\* fires, and every request is answered or fails.  What the user and the microphone
\* do is not guaranteed.
DictationFairSpec ==
  /\ DictationSpec
  /\ []<>(pendingUpdates = <<>>)
  /\ WF_vars(SyncTranscriptRef)
  /\ WF_vars(\E r \in 1..Len(recorders) : TimerFlush(r))
  /\ WF_vars(\E call \in transcribeCalls, text \in session.texts : TranscribeOk(call, text))
  /\ WF_vars(\E call \in clarifyCalls :
               \/ ClarifyFail(call)
               \/ \E content \in ClarifyContents(call.textToSend) : ClarifyOk(call, content))

(***************************************************************************)
(* Chunks whose transcription depends on the chunk: the n-th request       *)
(* submitted is answered with the n-th text, whenever its answer arrives   *)
(***************************************************************************)
MaxOrderFrames == 3

\* the oracle's text for the request with this number
ChunkText(id) ==
  <<Hello, HelloThere, ThereFriend, Blank>>[((id - 1) % 4) + 1]

OrderInit ==
  /\ session = [settings |-> DefaultSettings, frames |-> LoudFrames, texts |-> {},
                maxFrames |-> MaxOrderFrames, maxRecorders |-> 1, maxClears |-> 0]
  /\ settings = session.settings
  /\ isRecording = FALSE
  /\ isSilent = TRUE
  /\ transcript = <<>>
  /\ pendingUpdates = <<>>
  /\ error = NoError
  /\ transcriptRef = <<>>
  /\ recorderRef = 0
  /\ clarifiedUpToRef = 0
  /\ clarifyingRef = FALSE
  /\ recorders = <<>>
  /\ transcribeCalls = {}
  /\ clarifyCalls = {}
  /\ callsIssued = 0
  /\ frameCount = 0
  /\ clearCount = 0
  /\ completions = <<>>
  /\ flushLog = <<>>
  /\ renderLog = <<>>

OrderNext ==
  \/ StartRecording
  \/ \E r \in 1..Len(recorders) : MediaGranted(r)
  \/ \E r \in 1..Len(recorders), frame \in session.frames : AudioProcess(r, frame)
  \/ \E r \in 1..Len(recorders) : TimerFlush(r)
  \/ StopRecording
  \/ \E call \in transcribeCalls : TranscribeOk(call, ChunkText(call.id))
  \/ Render
  \/ SyncTranscriptRef

OrderSpec == OrderInit /\ [][OrderNext]_vars

(***************************************************************************)
(* The recorder in the hands of any caller: stop() may be called on a      *)
(* recorder at any time, before its start has completed, after it, and     *)
(* again; every call is logged with what it released and emitted           *)
(***************************************************************************)
MaxStopCalls == 3
MaxStopFrames == 2

StopInit ==
  /\ session = [settings |-> DefaultSettings, frames |-> MixedFrames, texts |-> {},
                maxFrames |-> MaxStopFrames, maxRecorders |-> 1, maxClears |-> 0]
  /\ settings = session.settings
  /\ isRecording = FALSE
  /\ isSilent = TRUE
  /\ transcript = <<>>
  /\ pendingUpdates = <<>>
  /\ error = NoError
  /\ transcriptRef = <<>>
  /\ recorderRef = 0
  /\ clarifiedUpToRef = 0
  /\ clarifyingRef = FALSE
  /\ recorders = <<>>
  /\ transcribeCalls = {}
  /\ clarifyCalls = {}
  /\ callsIssued = 0
  /\ frameCount = 0
  /\ clearCount = 0
  /\ completions = <<>>
  /\ flushLog = <<>>
  /\ renderLog = <<>>

\* recorder.stop(), called on recorder r by whoever holds it
StopCall(r) ==
  /\ Len(completions) < MaxStopCalls
  /\ LET f == Stop(recorders[r])
     IN  /\ recorders' = [recorders EXCEPT ![r] = f.rec]
         /\ FlushEffects(r, f)
         /\ isSilent' = IF f.notified THEN f.silent ELSE isSilent
         /\ completions' =
              Append(completions,
                     [recorder |-> r, before |-> recorders[r], after |-> f.rec,
                      released |-> Releases(recorders[r]),
                      timerCleared |-> recorders[r].intervalId,
                      flushed |-> f.flushed, notified |-> f.notified,
                      handed |-> f.handed])
  /\ UNCHANGED <<isRecording, transcript, pendingUpdates, settings, transcriptRef,
                 recorderRef, clarifiedUpToRef, clarifyingRef, clarifyCalls, frameCount,
                 clearCount, renderLog, session>>

StopNext ==
  \/ StartRecording
  \/ \E r \in 1..Len(recorders) : MediaGranted(r)
  \/ \E r \in 1..Len(recorders) : MediaDenied(r)
  \/ \E r \in 1..Len(recorders), frame \in session.frames : AudioProcess(r, frame)
  \/ \E r \in 1..Len(recorders) : TimerFlush(r)
  \/ \E r \in 1..Len(recorders) : StopCall(r)

StopSpec == StopInit /\ [][StopNext]_vars

(***************************************************************************)
(* The reconciler's rules, stated on what each merge updater was given and *)
(* what it returned                                                        *)
(***************************************************************************)
\* the merges of the last render whose transcript was not empty
MergesRun ==
  {i \in 1..Len(renderLog) :
     renderLog[i].update.kind = "merge" /\ renderLog[i].prev # <<>>}

GivenFragment(i) == Trim(renderLog[i].update.text)
GivenTail(i) ==
  LET prev == renderLog[i].prev
  IN  IF Len(prev) <= 500 THEN prev ELSE SubSeq(prev, Len(prev) - 499, Len(prev))

\* the fragment occurs in the tail, ignoring case
IsPureRepeat(i) == Includes(ToLowerCase(GivenTail(i)), ToLowerCase(GivenFragment(i)))

\* the 3-grams of the fragment, and those of them that occur in the tail
ThreeGramStarts(i) == 1..(Len(SplitWords(ToLowerCase(GivenFragment(i)))) - 2)
ThreeGramsFound(i) ==
  LET words == SplitWords(ToLowerCase(GivenFragment(i)))
  IN  {k \in ThreeGramStarts(i) :
         Includes(ToLowerCase(GivenTail(i)),
                  words[k] \o <<" ">> \o words[k + 1] \o <<" ">> \o words[k + 2])}
IsNearRepeat(i) == 2 * Cardinality(ThreeGramsFound(i)) > Cardinality(ThreeGramStarts(i))

\* the lengths at which a suffix of the tail equals a prefix of the fragment
OverlapLengths(i) ==
  LET tail == ToLowerCase(GivenTail(i))
      frag == ToLowerCase(GivenFragment(i))
  IN  {k \in 1..Min(Len(tail), Len(frag)) :
         SubSeq(tail, Len(tail) - k + 1, Len(tail)) = SubSeq(frag, 1, k)}
LongestOverlap(i) ==
  IF OverlapLengths(i) = {} THEN 0
  ELSE CHOOSE k \in OverlapLengths(i) : \A j \in OverlapLengths(i) : j <= k

\* prev, then one space unless a side has boundary white space, then the text
JoinedWithOneSpace(prev, text) ==
  IF prev[Len(prev)] \in WhiteSpace \/ text[1] \in WhiteSpace
    THEN prev \o text
    ELSE prev \o <<" ">> \o text

\* C3: a fragment that occurs, ignoring case, in the last 500 characters of the
\* transcript is discarded and the transcript is unchanged, whatever the 3-gram and
\* overlap rules would do with it.
C3_PureRepeatDiscarded ==
  \A i \in MergesRun : IsPureRepeat(i) => renderLog[i].next = renderLog[i].prev

\* "hello" merged into "hello world": no overlap at the end, yet nothing is appended
C3_Witness ==
  \E i \in MergesRun :
     /\ renderLog[i].prev = HelloWorld
     /\ renderLog[i].update.text = Hello
     /\ transcript = HelloWorld

\* C4: with no pure repeat and no near repeat, the longest overlap of at least 5
\* characters between the end of the tail and the start of the fragment is stripped
\* and the rest of the fragment is appended; an overlap shorter than 5 is not stripped.
C4_LongestOverlapStripped ==
  \A i \in MergesRun :
     (~IsPureRepeat(i) /\ ~IsNearRepeat(i) /\ LongestOverlap(i) > 0) =>
        renderLog[i].next =
          JoinedWithOneSpace(renderLog[i].prev,
            IF LongestOverlap(i) >= 5
              THEN Trim(SubSeq(GivenFragment(i), LongestOverlap(i) + 1,
                               Len(GivenFragment(i))))
              ELSE GivenFragment(i))

\* "brown fox jumps" after "the quick brown fox", "hello hello there" after
\* "hello hello" (two overlaps), and "orld peace" after "hello world" (overlap of 4)
C4_Witness ==
  \E i \in MergesRun :
     \/ /\ renderLog[i].prev = QuickBrownFox
        /\ LongestOverlap(i) = 9
        /\ transcript = QuickBrownFox \o <<" ","j","u","m","p","s">>
     \/ /\ renderLog[i].prev = HelloHello
        /\ LongestOverlap(i) = 11
        /\ transcript = HelloHello \o <<" ","t","h","e","r","e">>
     \/ /\ renderLog[i].prev = HelloWorld
        /\ LongestOverlap(i) = 4
        /\ transcript = HelloWorld \o <<" ","o","r","l","d"," ","p","e","a","c","e">>

C6_NearRepeatDiscarded ==
  \A i \in MergesRun :
     /\ IsNearRepeat(i) => renderLog[i].next = renderLog[i].prev
     /\ (~IsNearRepeat(i) /\ ~IsPureRepeat(i)) => renderLog[i].next # renderLog[i].prev

\* two of three 3-grams found: discarded; one of two found: appended
C6_Witness ==
  \E i \in MergesRun :
     /\ renderLog[i].prev = QuickBrownFox
     /\ ~IsPureRepeat(i)
     /\ \/ /\ Cardinality(ThreeGramStarts(i)) = 3
           /\ Cardinality(ThreeGramsFound(i)) = 2
           /\ transcript = QuickBrownFox
        \/ /\ Cardinality(ThreeGramStarts(i)) = 2
           /\ Cardinality(ThreeGramsFound(i)) = 1
           /\ transcript = QuickBrownFox \o <<" ">> \o GivenFragment(i)

(***************************************************************************)
(* The clarify race guard                                                  *)
(***************************************************************************)
\* the clarify updaters the last render ran
ClarifiesRun == {i \in 1..Len(renderLog) : renderLog[i].update.kind = "clarify"}

\* the characters the updater found in [absoluteStart, absoluteEnd)
RangeFound(i) ==
  Slice(renderLog[i].prev, renderLog[i].update.absoluteStart,
        renderLog[i].update.absoluteEnd)

\* the transcript with [absoluteStart, absoluteEnd) replaced by the corrected text
Replaced(i) ==
  Slice(renderLog[i].prev, 0, renderLog[i].update.absoluteStart)
    \o renderLog[i].update.text
    \o SliceFrom(renderLog[i].prev, renderLog[i].update.absoluteEnd)

Discarded(i) ==
  /\ renderLog[i].next = renderLog[i].prev
  /\ renderLog[i].nextUpTo = renderLog[i].prevUpTo

\* C1: the corrected text replaces [absoluteStart, absoluteEnd) only if the range
\* still holds exactly the characters sliced when the call was issued; otherwise the
\* result is discarded and transcript and clarifiedUpTo are left as they were.
C1_ReplacedOnlyIfRangeUnchanged ==
  \A i \in ClarifiesRun :
     IF RangeFound(i) = renderLog[i].update.sliced
       THEN renderLog[i].next = Replaced(i)
       ELSE Discarded(i)

(***************************************************************************)
(* One clarification at a time                                             *)
(***************************************************************************)
\* the step is the completion of a transcription that returned some text
CompletesWithText ==
  /\ Len(completions') = Len(completions) + 1
  /\ Trim(completions'[Len(completions')]) # <<>>

\* C2: at most one clarification call is in flight; while one is in flight no step
\* issues another, nothing is started when it resolves, and a call is only ever
\* issued by the check that follows a merge.
C2_OneClarifyInFlight ==
  [][/\ Cardinality(clarifyCalls') <= 1
     /\ clarifyCalls # {} => clarifyCalls' \subseteq clarifyCalls
     /\ clarifyCalls' # {} /\ clarifyCalls = {} => CompletesWithText]_vars

\* a call is in flight, a later transcription has been merged, and the check that
\* followed it would have issued a call had none been in flight
C2_Witness ==
  \E call \in clarifyCalls :
     /\ clearCount = 0
     /\ Len(completions) > call.issuedAfter
     /\ Trim(completions[Len(completions)]) # <<>>
     /\ clarifyingRef
     /\ ClarifyRequest(settings, FALSE, transcriptRef, clarifiedUpToRef).issue

(***************************************************************************)
(* The greeting, end to end                                                *)
(***************************************************************************)
\* the merges of the last render that were given an empty transcript
FirstMerges ==
  {i \in 1..Len(renderLog) :
     renderLog[i].update.kind = "merge" /\ renderLog[i].prev = <<>>}

\* C7: merged into an empty transcript, a fragment becomes the transcript; once the
\* transcriptions "Hello", "Hello there", "there friend" have completed in that order
\* and their merges have run, the transcript is exactly "Hello there friend".
C7_GreetingMerged ==
  /\ \A i \in FirstMerges : renderLog[i].next = Trim(renderLog[i].update.text)
  /\ (completions = <<Hello, HelloThere, ThereFriend>> /\ pendingUpdates = <<>>)
        => transcript = HelloThereFriend

C7_Witness ==
  /\ completions = <<Hello, HelloThere, ThereFriend>>
  /\ pendingUpdates = <<>>
  /\ Len(flushLog) = 3
  /\ transcript = HelloThereFriend

(***************************************************************************)
(* Empty results                                                           *)
(***************************************************************************)
\* the step is the completion of a transcription that returned no text
CompletesWithoutText ==
  /\ Len(completions') = Len(completions) + 1
  /\ Trim(completions'[Len(completions')]) = <<>>

\* C8: a successful transcription whose text is empty or only whitespace appends
\* nothing: no update is queued, transcript and clarifiedUpTo are unchanged, and no
\* clarification check runs (no call is issued, the in-flight flag is untouched).
C8_EmptyResultAppendsNothing ==
  [][CompletesWithoutText =>
       /\ pendingUpdates' = pendingUpdates
       /\ transcript' = transcript
       /\ clarifiedUpToRef' = clarifiedUpToRef
       /\ clarifyCalls' = clarifyCalls
       /\ clarifyingRef' = clarifyingRef
       /\ callsIssued' = callsIssued]_vars

\* a whitespace-only result has just arrived in a state where a clarification check,
\* had it run, would have issued a call
C8_Witness ==
  /\ completions # <<>>
  /\ completions[Len(completions)] = Blank
  /\ clarifyCalls = {}
  /\ ClarifyRequest(settings, clarifyingRef, transcriptRef, clarifiedUpToRef).issue

(***************************************************************************)
(* The silence gate                                                        *)
(***************************************************************************)
\* the sum of the squares of samples[1..n]
SquaresUpTo[samples \in Seq(Int), n \in Nat] ==
  IF n = 0 THEN 0 ELSE SquaresUpTo[samples, n - 1] + samples[n] * samples[n]

\* the root mean square of the chunk is strictly below the threshold
RmsBelowThreshold(i) ==
  LET samples == flushLog[i].samples
      threshold == flushLog[i].silenceThreshold
  IN  SquaresUpTo[samples, Len(samples)] < threshold * threshold * Len(samples)

Flushes == 1..Len(flushLog)

\* C9: a flushed chunk whose RMS is strictly below the threshold is dropped: it is not
\* handed to onChunk and no transcription request exists for it; a chunk whose RMS is
\* at or above the threshold is handed to onChunk exactly once, as one request of its
\* own carrying the encoding of its samples.
C9_SilenceGate ==
  /\ \A i \in Flushes :
        IF RmsBelowThreshold(i)
          THEN ~flushLog[i].handed /\ flushLog[i].request = 0
          ELSE /\ flushLog[i].handed
               /\ flushLog[i].request \in 1..callsIssued
               /\ \A j \in Flushes : flushLog[j].request = flushLog[i].request => j = i
  /\ \A call \in transcribeCalls :
        \E i \in Flushes :
           /\ flushLog[i].request = call.id
           /\ ~RmsBelowThreshold(i)
           /\ call.audioBlob = EncodeWav(flushLog[i].samples, SAMPLE_RATE)

\* a chunk below the threshold was dropped and a chunk exactly at it was handed on
C9_Witness ==
  /\ \E i \in Flushes : RmsBelowThreshold(i) /\ flushLog[i].samples # <<0>>
  /\ \E i \in Flushes :
        /\ flushLog[i].samples = <<flushLog[i].silenceThreshold>>
        /\ flushLog[i].handed
        /\ \E call \in transcribeCalls : call.id = flushLog[i].request

(***************************************************************************)
(* Silence notifications                                                   *)
(***************************************************************************)
\* j is the chunk the recorder of chunk i classified just before it
Precedes(j, i) ==
  /\ j < i
  /\ flushLog[j].recorder = flushLog[i].recorder
  /\ \A k \in (j + 1)..(i - 1) : flushLog[k].recorder # flushLog[i].recorder

\* C10: a recorder notifies the silence state for a chunk exactly when the chunk's
\* classification differs from that of the chunk it classified just before, and the
\* same samples under the same threshold always get the same classification.
C10_NotifiedOnFlipsOnly ==
  /\ \A i, j \in Flushes :
        Precedes(j, i) =>
          (flushLog[i].notified <=> flushLog[i].silent # flushLog[j].silent)
  /\ \A i, j \in Flushes :
        (/\ flushLog[i].samples = flushLog[j].samples
         /\ flushLog[i].silenceThreshold = flushLog[j].silenceThreshold)
          => flushLog[i].silent = flushLog[j].silent

\* one recorder classified three chunks: the second repeats the first and is not
\* notified, the third flips and is notified
C10_Witness ==
  \E i, j, k \in Flushes :
     /\ Precedes(i, j) /\ Precedes(j, k)
     /\ flushLog[i].samples = flushLog[j].samples
     /\ flushLog[j].silent = flushLog[i].silent /\ ~flushLog[j].notified
     /\ flushLog[k].silent # flushLog[j].silent /\ flushLog[k].notified

(***************************************************************************)
(* Stopping the recorder                                                   *)
(***************************************************************************)
\* the frames of chunks[1..n], one after another
ConcatenatedUpTo[chunks \in Seq(Seq(Int)), n \in Nat] ==
  IF n = 0 THEN <<>> ELSE ConcatenatedUpTo[chunks, n - 1] \o chunks[n]
Concatenated(chunks) == ConcatenatedUpTo[chunks, Len(chunks)]

\* the root mean square of the samples is strictly below the threshold
Quiet(samples, threshold) ==
  SquaresUpTo[samples, Len(samples)] < threshold * threshold * Len(samples)

Recorders == 1..Len(recorders)

\* the step is stopRecording stopping recorder r
Stops(r) == recorderRef = r /\ recorderRef' = 0

\* the step adds exactly the entry e at the end of the log of flushes
Logs(e) == flushLog' = Append(flushLog, e)

\* C11: stop flushes exactly once, while the audio context is still open: the frames
\* buffered since the last flush leave as one last chunk, passed on unless the silence
\* gate drops it; with an empty buffer nothing is emitted; afterwards the timer is
\* cancelled and every resource released, and no flush of that recorder follows.
C11_StopFlushesOnce ==
  [][\A r \in Recorders :
       /\ Stops(r) =>
            /\ IF recorders[r].chunks = <<>>
                 THEN flushLog' = flushLog /\ transcribeCalls' = transcribeCalls
                 ELSE /\ Len(flushLog') = Len(flushLog) + 1
                      /\ LET e == flushLog'[Len(flushLog')]
                         IN  /\ Logs(e)
                             /\ e.recorder = r
                             /\ e.samples = Concatenated(recorders[r].chunks)
                             /\ e.contextOpen
                             /\ e.handed = ~Quiet(e.samples, recorders[r].silenceThreshold)
                             /\ IF e.handed
                                  THEN \E call \in transcribeCalls' \ transcribeCalls :
                                          call.id = e.request
                                  ELSE transcribeCalls' = transcribeCalls
            /\ recorders'[r].chunks = <<>>
            /\ ~recorders'[r].intervalId /\ ~recorders'[r].isActive
            /\ ~recorders'[r].stream /\ ~recorders'[r].audioContext
            /\ ~recorders'[r].processor /\ ~recorders'[r].source
       /\ (~recorders[r].intervalId /\ Len(flushLog') > Len(flushLog)) =>
            flushLog'[Len(flushLog')].recorder # r]_vars

\* a recorder was stopped with frames in its buffer: its last chunk holds the frames
\* that arrived after its first flush, and a later recorder has flushed since
C11_Witness ==
  \E i, j, k \in Flushes :
     /\ i < j /\ j < k
     /\ flushLog[i].recorder = 1 /\ flushLog[j].recorder = 1 /\ flushLog[k].recorder = 2
     /\ Len(flushLog[j].samples) = 2
     /\ flushLog[j].handed
     /\ ~recorders[1].stream /\ ~recorders[1].intervalId

(***************************************************************************)
(* Frames and chunks                                                       *)
(***************************************************************************)
\* the arrival number a frame of RecorderSpec carries
FrameNumber(sample) == sample % FrameBase

\* the frames recorder r sent off in its first n flushes of the log, chunk after chunk
FramesSent(r) ==
  LET sent[n \in Nat] ==
        IF n = 0 THEN <<>>
        ELSE IF flushLog[n].recorder = r THEN sent[n - 1] \o flushLog[n].samples
        ELSE sent[n - 1]
  IN  sent[Len(flushLog)]

\* every frame of recorder r that left in a chunk, then the frames it still buffers
FramesHeld(r) == FramesSent(r) \o Concatenated(recorders[r].chunks)

\* C12: for every recorder, the frames that left in its chunks, read chunk after chunk
\* and followed by the frames still buffered, are frames that arrived, in strictly
\* increasing order of arrival: order is kept inside and across chunks, no frame is
\* in two chunks, and a frame that left in a chunk is no longer in the buffer; no
\* frame is held by two recorders.
C12_FramesDeliveredOnce ==
  /\ \A r \in Recorders :
        /\ \A a \in 1..Len(FramesHeld(r)) :
              FrameNumber(FramesHeld(r)[a]) \in 1..frameCount
        /\ \A a, b \in 1..Len(FramesHeld(r)) :
              a < b => FrameNumber(FramesHeld(r)[a]) < FrameNumber(FramesHeld(r)[b])
  /\ \A r, q \in Recorders :
        r # q => \A a \in 1..Len(FramesHeld(r)), b \in 1..Len(FramesHeld(q)) :
                   FramesHeld(r)[a] # FramesHeld(q)[b]

\* a chunk of two frames has left, another chunk has left, and a frame is buffered
C12_Witness ==
  \E r \in Recorders :
     /\ \E i, j \in Flushes :
           /\ i # j /\ flushLog[i].recorder = r /\ flushLog[j].recorder = r
           /\ Len(flushLog[i].samples) = 2
     /\ recorders[r].chunks # <<>>

(***************************************************************************)
(* Flushing an empty buffer                                                *)
(***************************************************************************)
\* the step logs a flush of recorder r
LogsFlushOf(r) ==
  Len(flushLog') > Len(flushLog) /\ flushLog'[Len(flushLog')].recorder = r

\* C13: a flush that finds the buffer empty emits nothing: a step that starts with the
\* buffer of a recorder empty logs no flush of it (no chunk, no notification) and
\* leaves its remembered silence state alone, no chunk without frames is ever logged,
\* and a stop with an empty buffer submits nothing.
C13_EmptyFlushEmitsNothing ==
  [][/\ \A r \in Recorders :
          recorders[r].chunks = <<>> =>
            /\ ~LogsFlushOf(r)
            /\ recorders'[r].lastSilentState = recorders[r].lastSilentState
            /\ Stops(r) => flushLog' = flushLog /\ transcribeCalls' = transcribeCalls
     /\ Len(flushLog') > Len(flushLog) => flushLog'[Len(flushLog')].samples # <<>>]_vars

\* a recorder was started, ran its timer, and was stopped without ever holding a
\* frame: every flush it made, the one of stop included, found the buffer empty
C13_Witness ==
  \E r \in Recorders :
     /\ recorders[r].onaudioprocess /\ ~recorders[r].stream /\ ~recorders[r].isActive
     /\ recorders[r].lastSilentState = "null"
     /\ \A i \in Flushes : flushLog[i].recorder # r

(***************************************************************************)
(* Frames after stop                                                       *)
(***************************************************************************)
\* the step is the audio callback delivering a frame
DeliversFrame == frameCount' = frameCount + 1

\* C14: a frame the audio callback delivers to a recorder that is not active is
\* dropped: the delivery leaves every inactive recorder as it was and flushes
\* nothing, and an inactive recorder never holds a frame, so none can reach a chunk.
C14_FramesAfterStopDropped ==
  [][/\ DeliversFrame =>
          /\ flushLog' = flushLog
          /\ \A r \in Recorders : ~recorders[r].isActive => recorders'[r] = recorders[r]
     /\ \A r \in 1..Len(recorders') :
          ~recorders'[r].isActive => recorders'[r].chunks = <<>>]_vars

\* the only recorder was stopped after it had flushed a frame, and a frame delivered
\* since is in no chunk and in no buffer
C14_Witness ==
  /\ Len(recorders) = 1
  /\ recorders[1].onaudioprocess /\ ~recorders[1].isActive
  /\ Len(FramesSent(1)) = 1
  /\ frameCount = 2
  /\ recorders[1].chunks = <<>>

(***************************************************************************)
(* The prompt context                                                      *)
(***************************************************************************)
\* the last n characters of the text: all of it when it is shorter, none when n = 0
LastChars(text, n) ==
  IF Len(text) <= n THEN text ELSE SubSeq(text, Len(text) - n + 1, Len(text))

\* C15: the prompt submitted with a chunk is the last N characters of the transcript
\* as the handler saw it at submission, N the configured context length; it is never
\* longer than N, and with N = 0 it is empty.
C15_PromptIsLastN ==
  [][\A call \in transcribeCalls' \ transcribeCalls :
       /\ call.prompt = LastChars(transcriptRef, settings.contextLength)
       /\ Len(call.prompt) <= settings.contextLength]_vars

(***************************************************************************)
(* Start, stop and clear                                                   *)
(***************************************************************************)
\* the step is startRecording up to its await, and the step is stopRecording
StartsRecording == Len(recorders') = Len(recorders) + 1
StopsRecording == isRecording /\ ~isRecording'

\* the step is a confirmed clearTranscript
Clears == clearCount' = clearCount + 1

\* the step renders the setTranscript("") of a clear
RendersClear ==
  /\ pendingUpdates # <<>> /\ pendingUpdates' = <<>>
  /\ \E i \in 1..Len(pendingUpdates) : pendingUpdates[i].kind = "set"

\* C16: starting and stopping change neither the transcript nor clarifiedUpTo, and
\* only a confirmed clear resets them, to the empty text and to 0.
C16_StartStopKeepTranscriptAndCursor ==
  [][/\ (StartsRecording \/ StopsRecording) =>
          /\ transcript' = transcript
          /\ pendingUpdates' = pendingUpdates
          /\ clarifiedUpToRef' = clarifiedUpToRef
     /\ Clears => clarifiedUpToRef' = 0 /\ pendingUpdates' = Append(pendingUpdates, SetEmptyUpdate)
     /\ (clarifiedUpToRef # 0 /\ clarifiedUpToRef' = 0) => Clears
     /\ (transcript # <<>> /\ transcript' = <<>>) => RendersClear]_vars

(***************************************************************************)
(* Results that arrive after stop                                          *)
(***************************************************************************)
\* the step is the successful completion of a transcription
Completes == Len(completions') = Len(completions) + 1

\* C17: stopRecording cancels no transcription call in flight, and a call that
\* completes while recording is stopped is dropped: nothing is queued for the
\* transcript and no clarification is started.
C17_LateResultsDropped ==
  [][/\ StopsRecording => transcribeCalls \subseteq transcribeCalls'
     /\ (Completes /\ ~isRecording) =>
          /\ pendingUpdates' = pendingUpdates
          /\ clarifyCalls' = clarifyCalls]_vars

(***************************************************************************)
(* Failed transcription calls                                              *)
(***************************************************************************)
\* the step is a transcription call that rejects: it leaves without completing
TranscriptionFails ==
  /\ transcribeCalls' # transcribeCalls
  /\ transcribeCalls' \subseteq transcribeCalls
  /\ ~Completes

\* the requests the step submits
Submitted == {call.id : call \in transcribeCalls'} \ {call.id : call \in transcribeCalls}

\* C18: a transcription call that fails is swallowed: the transcript, the queued
\* updates and clarifiedUpTo are unchanged, the error notice is set, nothing is
\* submitted again and the recorder keeps capturing; any request submitted is for
\* the chunk of a new flush.
C18_FailedCallSwallowed ==
  [][/\ TranscriptionFails =>
          /\ transcript' = transcript
          /\ pendingUpdates' = pendingUpdates
          /\ clarifiedUpToRef' = clarifiedUpToRef
          /\ error' = ConnectionIssue
          /\ Submitted = {}
          /\ callsIssued' = callsIssued
          /\ recorders' = recorders
          /\ isRecording' = isRecording
     /\ \A id \in Submitted :
          /\ Len(flushLog') = Len(flushLog) + 1
          /\ flushLog'[Len(flushLog')].request = id
          /\ \A i \in 1..Len(flushLog) : flushLog[i].request # id]_vars

\* the first chunk's call failed, and the second chunk was captured, submitted,
\* transcribed and merged
C18_Witness ==
  /\ Len(flushLog) = 2
  /\ flushLog[1].request = 1
  /\ flushLog[2].request = 2
  /\ transcribeCalls = {}
  /\ completions = <<Yes>>
  /\ error = NoError
  /\ transcript = Yes
  /\ pendingUpdates = <<>>

(***************************************************************************)
(* Failed clarify calls                                                    *)
(***************************************************************************)
\* the step ends a clarify call; in a session whose clarify service is down, it failed
ClarifyEnds == clarifyCalls' # clarifyCalls /\ clarifyCalls' \subseteq clarifyCalls

\* C19: a clarify call that fails replaces nothing: the transcript and the queued
\* updates are left as they were and clarifiedUpTo keeps its value; with every call
\* failing no clarify updater is ever queued, and clarifiedUpTo stays at the 0 the
\* session's start put it to.
C19_FailedClarifyKeepsText ==
  [][/\ ClarifyEnds =>
          /\ transcript' = transcript
          /\ pendingUpdates' = pendingUpdates
          /\ clarifiedUpToRef' = clarifiedUpToRef
          /\ ~clarifyingRef'
     /\ \A i \in 1..Len(pendingUpdates') : pendingUpdates'[i].kind = "merge"
     /\ clarifiedUpToRef' = 0]_vars

\* a clarify call for the first sentence has failed; the transcript holds the two
\* sentences as transcribed, and nothing is left to render
C19_Witness ==
  /\ callsIssued = 3
  /\ Len(flushLog) = 2
  /\ clarifyCalls = {}
  /\ ~clarifyingRef
  /\ pendingUpdates = <<>>
  /\ transcript = Yes \o <<" ">> \o Trim(PaddedNo)
  /\ clarifiedUpToRef = 0

(***************************************************************************)
(* The kinds of failure of a transcription call                            *)
(***************************************************************************)
\* the exchanges settled so far whose answer was not a success
Failed == {i \in 1..Len(completions) : ~Ok(completions[i].call.response)}

\* the kind of failure an answer stands for: its status and its code tell
AnswerKind(res) ==
  IF res.json /\ res.code = MODEL_NOT_AVAILABLE THEN "capability"
  ELSE IF res.status = 400 THEN "validation"
  ELSE "transient"

\* what a handler can tell one failure from another by: its class and its code (the
\* message is the free text of whoever failed)
FailureKind(outcome) == <<outcome.class, outcome.code>>

\* the capability failure is thrown exactly for the answers that carry the code
CapabilityIffCode ==
  \A i \in Failed :
    LET x == completions[i]
    IN  /\ x.outcome.settled = "rejected"
        /\ x.outcome.class = "DiarizeModelError" <=>
             (x.call.response.json /\ x.call.response.code = MODEL_NOT_AVAILABLE)

\* C20: every answer that is not a success settles the call with a failure of one of
\* three kinds that can be told apart (transient, capability not available,
\* validation): answers of different kinds give failures of different kinds, and the
\* capability kind is given exactly for the answers that carry MODEL_NOT_AVAILABLE.
C20_ThreeFailureKinds ==
  /\ CapabilityIffCode
  /\ \A i, j \in Failed :
       AnswerKind(completions[i].call.response) # AnswerKind(completions[j].call.response)
         => FailureKind(completions[i].outcome) # FailureKind(completions[j].outcome)

(***************************************************************************)
(* The encoded container, read back from its bytes                         *)
(***************************************************************************)
\* the unsigned and signed little-endian numbers stored at a byte offset
U16At(bytes, offset) == bytes[offset + 1] + 256 * bytes[offset + 2]
U32At(bytes, offset) == U16At(bytes, offset) + 65536 * U16At(bytes, offset + 2)
S16At(bytes, offset) ==
  IF U16At(bytes, offset) >= 32768 THEN U16At(bytes, offset) - 65536
  ELSE U16At(bytes, offset)

\* the four characters stored at a byte offset spell the tag
TagAt(bytes, offset, tag) ==
  \A i \in 1..4 : bytes[offset + i] = CharCode(tag[i])

\* the chunks encoded so far
Encoded == {flushLog[i] : i \in 1..Len(flushLog)}

\* C21: the container of n samples is 44 + 2n bytes long; its data length field is
\* 2n and its overall size field 36 + 2n, the length less 8; the format section says
\* PCM, 1 channel, 16 bits, the given sample rate, byte rate twice the sample rate,
\* block align 2; the data section follows the format section directly and ends the
\* container, so the payload read from the header is the n samples.
C21_ContainerLayout ==
  \A e \in Encoded :
    LET n == Len(e.samples)
        wav == e.wav
    IN  /\ Len(wav) = 44 + 2 * n
        /\ \A i \in 1..Len(wav) : wav[i] \in 0..255
        /\ TagAt(wav, 0, <<"R","I","F","F">>)
        /\ U32At(wav, 4) = 36 + 2 * n
        /\ U32At(wav, 4) = Len(wav) - 8
        /\ TagAt(wav, 8, <<"W","A","V","E">>)
        /\ TagAt(wav, 12, <<"f","m","t"," ">>)
        /\ U32At(wav, 16) = 16
        /\ U16At(wav, 20) = 1
        /\ U16At(wav, 22) = 1
        /\ U32At(wav, 24) = e.sampleRate
        /\ U32At(wav, 28) = 2 * e.sampleRate
        /\ U16At(wav, 32) = 2
        /\ U16At(wav, 34) = 16
        /\ TagAt(wav, 20 + U32At(wav, 16), <<"d","a","t","a">>)
        /\ U32At(wav, 40) = 2 * n
        /\ 44 + U32At(wav, 40) = Len(wav)
        /\ U32At(wav, 40) \div U16At(wav, 32) = n

\* a chunk of three samples was encoded at 44100 Hz
C21_Witness ==
  \E e \in Encoded :
    /\ Len(e.samples) = 3
    /\ e.sampleRate = 44100
    /\ Len(e.wav) = 50

\* the value a sample should be stored as: clamped to full scale, then scaled by
\* 32768 below zero and by 32767 otherwise, the fraction dropped
Clamped(x) == IF x < -1000 THEN -1000 ELSE IF x > 1000 THEN 1000 ELSE x
Scaled(x) ==
  IF Clamped(x) < 0 THEN -((-Clamped(x) * 32768) \div 1000)
  ELSE (Clamped(x) * 32767) \div 1000

\* C22: every stored sample is the clamped and scaled value and lies in the signed
\* 16-bit range with its sign kept: -1 and below are stored as -32768, 1 and above as
\* 32767, and 0 as 0.
C22_SamplesClampedAndScaled ==
  \A e \in Encoded :
    \A i \in 1..Len(e.samples) :
      LET x == e.samples[i]
          stored == S16At(e.wav, 44 + 2 * (i - 1))
      IN  /\ stored = Scaled(x)
          /\ stored \in -32768..32767
          /\ x <= -1000 => stored = -32768
          /\ x >= 1000 => stored = 32767
          /\ x = 0 => stored = 0
          /\ x < 0 => stored <= 0
          /\ x > 0 => stored >= 0

\* one chunk held a sample below -1, the sample 0 and a sample above 1
C22_Witness ==
  \E e \in Encoded :
    /\ e.samples = <<-1500, 0, 1500>>
    /\ S16At(e.wav, 44) = -32768
    /\ S16At(e.wav, 46) = 0
    /\ S16At(e.wav, 48) = 32767

(***************************************************************************)
(* The language of the call to the oracle                                  *)
(***************************************************************************)
\* C23: the call to the oracle has no language field exactly when the language of the
\* session is "auto"; for any other language it carries that language unchanged, for
\* plain and for diarized transcription.
C23_LanguageOmittedIffAuto ==
  \A i \in 1..Len(completions) :
    LET x == completions[i]
    IN  /\ x.language = Omitted <=> x.call.sessionLanguage = "auto"
        /\ x.call.sessionLanguage # "auto" => x.language = x.call.sessionLanguage

\* the second call, a diarized one, was made without a language for a session set to
\* "auto"
C23_Witness ==
  /\ callsIssued = 2
  /\ settings.language = "auto"
  /\ Len(completions) = 1
  /\ completions[1].call.id = 2
  /\ completions[1].call.endpoint = "/api/transcribe-diarize"
  /\ completions[1].call.sessionLanguage = "auto"
  /\ completions[1].language = Omitted

(***************************************************************************)
(* The segments of a diarized response                                     *)
(***************************************************************************)
\* the oracle's segments that have text, in the oracle's order
WithText(segments) == SelectSeq(segments, LAMBDA seg : Trim(seg.text) # <<>>)

\* a text as the claim expects to find it: as the oracle gave it, or trimmed
Shown(trimmed, text) == IF trimmed THEN Trim(text) ELSE text

\* the response's segments are the oracle's segments that have text, in order, each
\* with the text Shown of the oracle's; a segment without a speaker is given "A"
ReturnedInOrder(x, trimmed) ==
  LET given == WithText(x.answer.segments)
      returned == x.response.segments
  IN  /\ Len(returned) = Len(given)
      /\ \A k \in 1..Len(given) :
           /\ returned[k].text = Shown(trimmed, given[k].text)
           /\ returned[k].start = given[k].start
           /\ returned[k].end = given[k].end
           /\ returned[k].speaker \in {given[k].speaker, "A"}

\* the claim about one response, its texts being Shown of the oracle's texts
SegmentsRule(x, trimmed) ==
  /\ (x.answer.segments = <<>> /\ x.answer.text # <<>>) =>
       x.response.segments =
         <<[speaker |-> "A", text |-> Shown(trimmed, x.answer.text), start |-> 0, end |-> 0]>>
  /\ x.answer.text # <<>> => Len(x.response.segments) >= 1
  /\ WithText(x.answer.segments) # <<>> => ReturnedInOrder(x, trimmed)

\* C24 as stated: with no segments and a non-empty flat text the response has exactly
\* one segment, speaker "A", the full flat text, start = end = 0, so a response with
\* flat text has at least one segment; with at least one non-empty segment nothing is
\* synthesized and the oracle's segments are returned in order.
C24_FullTextSegment ==
  \A i \in 1..Len(completions) : SegmentsRule(completions[i], FALSE)

\* C24 as amended: the same, the text of the synthesized segment and of every
\* returned segment being the oracle's text without its surrounding white space.
C24_TrimmedTextSegment ==
  \A i \in 1..Len(completions) : SegmentsRule(completions[i], TRUE)

\* the oracle gave no segment and the flat text " No!\n": one segment "No!" is made
C24_Witness ==
  /\ Len(completions) = 1
  /\ completions[1].answer = [segments |-> <<>>, text |-> PaddedNo]
  /\ completions[1].response.segments =
       <<[speaker |-> "A", text |-> <<"N","o","!">>, start |-> 0, end |-> 0]>>

(***************************************************************************)
(* The caller's key                                                        *)
(***************************************************************************)
\* C25: a caller's key travels in the X-OpenAI-Key header and in no field of the body,
\* and serves only the request that carried it: the server's default client stays the
\* one of its environment, and a request without the header, or with a blank one, is
\* served with that default whatever the requests before it carried.
C25_KeyInHeaderOnly ==
  \A i \in 1..Len(completions) :
    LET x == completions[i]
    IN  /\ x.call.apiKey # <<>> =>
             /\ x.call.headers = {<<"X-OpenAI-Key", x.call.apiKey>>}
             /\ \A field \in x.call.body : field[2] # x.call.apiKey
        /\ x.call.apiKey = <<>> => x.call.headers = {}
        /\ x.defaultOpenai = DefaultKey
        /\ x.client = IF Trim(x.call.apiKey) # <<>> THEN Trim(x.call.apiKey)
                      ELSE DefaultKey

\* a request with the key "u1" was served with it, and the next request, without a
\* key, with the server's default
C25_Witness ==
  /\ Len(completions) = 2
  /\ completions[1].call.apiKey = <<"u","1">>
  /\ completions[1].client = <<"u","1">>
  /\ completions[2].call.headers = {}
  /\ completions[2].client = DefaultKey

(***************************************************************************)
(* Translation needs clarification                                         *)
(***************************************************************************)
\* C26: in every settings state the dialog can reach from the defaults, translation
\* on implies clarify on; a step that turns translation on leaves clarify on, and no
\* step turns clarify off while translation is on.
C26_TranslationImpliesClarify ==
  /\ [](settings.translatorEnabled => settings.clarifyEnabled)
  /\ [][/\ (~settings.translatorEnabled /\ settings'.translatorEnabled) =>
             settings'.clarifyEnabled
        /\ (settings.translatorEnabled /\ settings.clarifyEnabled
              /\ settings'.translatorEnabled) => settings'.clarifyEnabled]_vars

\* translation is on, and so is clarify; nothing else was changed
C26_Witness ==
  /\ settings.translatorEnabled
  /\ settings.clarifyEnabled
  /\ settings.language = "pl"
  /\ settings.openaiApiKey = <<>>
  /\ ~settings.diarizeEnabled

(***************************************************************************)
(* Merges only append                                                      *)
(***************************************************************************)
\* the merges of the last render, the first one into an empty transcript included
AllMergesRun == {i \in 1..Len(renderLog) : renderLog[i].update.kind = "merge"}

\* a is the beginning of b
IsPrefix(a, b) == Len(a) <= Len(b) /\ \A k \in 1..Len(a) : b[k] = a[k]

\* C27: a merge leaves the transcript as it was or extends it at its end: the
\* transcript before the merge is a prefix of the transcript after it.
C27_MergesAppendOnly ==
  \A i \in AllMergesRun : IsPrefix(renderLog[i].prev, renderLog[i].next)

\* "world peace" merged into "hello world": the transcript keeps its eleven
\* characters and grows by " peace"
C27_Witness ==
  \E i \in AllMergesRun :
    /\ renderLog[i].prev = HelloWorld
    /\ renderLog[i].next = HelloWorld \o <<" ","p","e","a","c","e">>

(***************************************************************************)
(* The sentence check that follows a merge                                 *)
(***************************************************************************)
\* the transcript and cursor that the queued updates give once they have run
Upcoming(updates) ==
  ApplyUpdates([transcript |-> transcript, clarifiedUpTo |-> clarifiedUpToRef,
                log |-> <<>>], updates)

\* the number of terminator runs in the unclarified suffix of what st holds
RunsAhead(st) == Len(FindSentenceEndings(SliceFrom(st.transcript, st.clarifiedUpTo)))

\* this step is the completion of a transcription whose text is merged
MergeArrives ==
  /\ Len(completions') = Len(completions) + 1
  /\ HasText(completions'[Len(completions')])

\* C28: when a merge brings the number of terminator runs after clarifiedUpTo up to
\* the batch size, with clarify enabled and no call in flight, the check that
\* follows the merge issues a clarification call in that same step.
C28_CheckSeesMergedFragment ==
  [][(/\ MergeArrives
      /\ settings.clarifyEnabled
      /\ ~clarifyingRef
      /\ RunsAhead(Upcoming(pendingUpdates)) < settings.clarifySentenceCount
      /\ RunsAhead(Upcoming(pendingUpdates')) >= settings.clarifySentenceCount)
     => Cardinality(clarifyCalls') = Cardinality(clarifyCalls) + 1]_vars

(***************************************************************************)
(* What a clarification call sends, and where it leaves the cursor         *)
(***************************************************************************)
\* the positions at which a run of terminators ends in text
RunEnds(text) ==
  {p \in 1..Len(text) :
     /\ text[p] \in SentenceTerminators
     /\ (p = Len(text) \/ text[p + 1] \notin SentenceTerminators)}

\* the end of the n-th run of text
NthRunEnd(text, n) ==
  CHOOSE p \in RunEnds(text) : Cardinality({q \in RunEnds(text) : q <= p}) = n

\* the text that tryClarify scans in this step
Scanned == SubSeq(transcriptRef, clarifiedUpToRef + 1, Len(transcriptRef))

\* every call issued in this step was issued with at least N runs in the scanned
\* text and carries that text up to the end of the N-th run, as it is or trimmed
IssuesSending(trimmed) ==
  \A call \in clarifyCalls' \ clarifyCalls :
    /\ Cardinality(RunEnds(Scanned)) >= settings.clarifySentenceCount
    /\ call.textToSend =
         Shown(trimmed,
               SubSeq(Scanned, 1, NthRunEnd(Scanned, settings.clarifySentenceCount)))

\* the clarify updaters of the last render whose result was applied
ClarifiesApplied ==
  {i \in 1..Len(renderLog) :
     /\ renderLog[i].update.kind = "clarify"
     /\ RangeUnchanged(renderLog[i].prev, renderLog[i].update)}

\* an applied result leaves the cursor just after the replacement text
CursorAfterReplacement ==
  \A i \in ClarifiesApplied :
    /\ renderLog[i].nextUpTo =
         renderLog[i].update.absoluteStart + Len(renderLog[i].update.text)
    /\ SubSeq(renderLog[i].next, renderLog[i].update.absoluteStart + 1,
              renderLog[i].nextUpTo) = renderLog[i].update.text

RECURSIVE MergedInOrder(_)
MergedInOrder(texts) ==
  IF texts = <<>> THEN <<>>
  ELSE LET before == MergedInOrder(SubSeq(texts, 1, Len(texts) - 1))
           last == texts[Len(texts)]
       IN  IF Trim(last) = <<>> THEN before ELSE MergeFragment(before, last)

\* C30: whatever the order in which the outstanding calls complete, the transcript
\* that the completions so far give is the merge function folded over their texts
\* in completion order; once rendered, that is the transcript shown.
C30_FoldInCompletionOrder ==
  /\ Upcoming(pendingUpdates).transcript = MergedInOrder(completions)
  /\ pendingUpdates = <<>> => transcript = MergedInOrder(completions)

\* the three calls were outstanding together and the third submitted was the first
\* to complete: the transcript is not the "Hello there friend" of submission order
C30_Witness ==
  /\ completions = <<ThereFriend, Hello, HelloThere>>
  /\ pendingUpdates = <<>>
  /\ transcript = ThereFriend \o <<" ">> \o HelloThere

(***************************************************************************)
(* A start whose microphone request fails                                  *)
(***************************************************************************)
\* start() of recorder r has ended at its await: nothing after it has run, so the
\* frame callback was never installed
StartFailed(recs, r) == ~recs[r].awaitingMedia /\ ~recs[r].onaudioprocess

\* recorder r holds nothing and does nothing
NothingStarted(r) ==
  /\ ~recorders[r].isActive
  /\ ~recorders[r].intervalId
  /\ ~recorders[r].stream
  /\ ~recorders[r].audioContext
  /\ ~recorders[r].source
  /\ ~recorders[r].processor
  /\ recorders[r].chunks = <<>>
  /\ recorderRef # r
  /\ \A i \in 1..Len(flushLog) : flushLog[i].recorder # r

\* the step in which the request of recorder r fails changes nothing in Home
FailsAsAWhole ==
  \A r \in 1..Len(recorders) :
    (recorders[r].awaitingMedia /\ StartFailed(recorders', r)) =>
       /\ isRecording' = isRecording
       /\ recorderRef' = recorderRef
       /\ error' = error
       /\ isSilent' = isSilent

\* C31: when the microphone request of a start fails, the recorder stays inactive,
\* arms no timer, holds no device resource and never emits a chunk, and the failure
\* does not mark the session as recording.
C31_FailedStartStartsNothing ==
  /\ [](\A r \in 1..Len(recorders) : StartFailed(recorders, r) => NothingStarted(r))
  /\ []((\A r \in 1..Len(recorders) : StartFailed(recorders, r)) => ~isRecording)
  /\ [][FailsAsAWhole]_vars

\* the first start failed; a second start was granted and has recorded a chunk
C31_Witness ==
  /\ Len(recorders) = 2
  /\ StartFailed(recorders, 1)
  /\ recorders[2].isActive
  /\ \E i \in 1..Len(flushLog) : flushLog[i].recorder = 2 /\ flushLog[i].handed

(***************************************************************************)
(* stop() called again                                                     *)
(***************************************************************************)
\* a recorder that is not capturing: stopped already, or its start has not completed
HoldsNothing(rec) ==
  /\ ~rec.isActive
  /\ ~rec.intervalId
  /\ ~rec.processor /\ ~rec.source /\ ~rec.audioContext /\ ~rec.stream

\* the logged calls of stop() made on a recorder that was not capturing
StopsRepeated == {i \in 1..Len(completions) : HoldsNothing(completions[i].before)}

\* C32: a call of stop on a recorder that was stopped before, or whose start never
\* completed, releases nothing, emits no chunk and no silence notification and
\* leaves the recorder as it was; every call releases only what is held, and no
\* resource of a recorder is released by two calls.
C32_StopSafeToRepeat ==
  /\ \A i \in StopsRepeated :
       /\ completions[i].released = {}
       /\ ~completions[i].timerCleared
       /\ ~completions[i].flushed /\ ~completions[i].notified /\ ~completions[i].handed
       /\ completions[i].after = completions[i].before
  /\ \A i \in 1..Len(completions) :
       /\ \A res \in completions[i].released : completions[i].before[res]
       /\ HoldsNothing(completions[i].after)
       /\ \A j \in 1..Len(completions) :
            (i < j /\ completions[i].recorder = completions[j].recorder) =>
               completions[i].released \cap completions[j].released = {}

\* stop was called while the start was pending, then after the start had completed and
\* a loud frame was buffered, and then once more: only the second call released and
\* emitted
C32_Witness ==
  /\ Len(completions) = 3
  /\ completions[1].before.awaitingMedia
  /\ completions[2].released = {"processor", "source", "audioContext", "stream"}
  /\ completions[2].handed
  /\ completions[3].released = {}
  /\ ~completions[3].flushed

(***************************************************************************)
(* The cursor stays inside the transcript                                  *)
(***************************************************************************)
\* C33: in every state clarifiedUpTo lies between 0 and the length of the transcript.
C33_CursorWithinTranscript ==
  /\ 0 <= clarifiedUpToRef
  /\ clarifiedUpToRef <= Len(transcript)

(***************************************************************************)
(* One recorder at a time                                                  *)
(***************************************************************************)
\* the recorders that buffer frames
Capturing == {r \in 1..Len(recorders) : recorders[r].isActive}

\* recorder r, as this step leaves it, neither captures nor holds the microphone nor
\* has a timer that could flush a chunk
Released(r) ==
  /\ ~recorders'[r].isActive
  /\ ~recorders'[r].stream
  /\ ~recorders'[r].intervalId

\* C34: at most one recorder is capturing at a time, and when stopRecording has run
\* no recorder of the session is active, holds the microphone or has an armed timer.
C34_OneRecorderAndStopReleasesAll ==
  /\ [](Cardinality(Capturing) <= 1)
  /\ [][(isRecording /\ ~isRecording') => \A r \in 1..Len(recorders) : Released(r)]_vars

(***************************************************************************)
(* What a clarification leaves alone                                       *)
(***************************************************************************)
\* the characters of text from position from + 1 to its end
RestFrom(text, from) == SubSeq(text, from + 1, Len(text))

\* C35: a clarify updater changes the transcript only between the slice start and
\* the slice end: the text before the start and the text after the end, whatever
\* was merged there while the call was in flight, are the same before and after;
\* an updater that discards its result changes nothing.
C35_OnlyTargetedRangeChanges ==
  \A i \in ClarifiesRun :
    LET e == renderLog[i]
        kept == Max(Len(e.prev) - e.update.absoluteEnd, 0)
    IN  IF i \in ClarifiesApplied
          THEN /\ SubSeq(e.next, 1, e.update.absoluteStart) =
                    SubSeq(e.prev, 1, e.update.absoluteStart)
               /\ Len(e.next) = e.update.absoluteStart + Len(e.update.text) + kept
               /\ RestFrom(e.next, Len(e.next) - kept) =
                    RestFrom(e.prev, e.update.absoluteEnd)
          ELSE e.next = e.prev

\* "Yes." was sent from [0,4); " No!" was merged while the call was in flight; the
\* answer "Oh." replaced the range and " No!" stayed behind it
C35_Witness ==
  \E i \in ClarifiesApplied :
    /\ renderLog[i].prev = Yes \o <<" ","N","o","!">>
    /\ renderLog[i].update.absoluteEnd = 4
    /\ renderLog[i].next = <<"O","h","."," ","N","o","!">>

(***************************************************************************)
(* Sentences that wait for a clarification                                 *)
(***************************************************************************)
\* clarify is on, no call is in flight, and the transcript that the queued updates
\* give holds the batch size of terminator runs, or more, after the cursor
BatchWaiting ==
  /\ settings.clarifyEnabled
  /\ ~clarifyingRef
  /\ RunsAhead(Upcoming(pendingUpdates)) >= settings.clarifySentenceCount

\* C36: whenever a full batch of sentences is waiting and no clarification is in
\* flight, a clarification call is eventually issued, whether or not a further
\* fragment is merged.
C36_WaitingBatchIsSent == BatchWaiting ~> clarifyingRef

(***************************************************************************)
(* The space in front of a clarified range                                 *)
(***************************************************************************)
\* the applied clarify updaters whose range began with white space that followed text
ClarifiesAfterSpace ==
  {i \in ClarifiesApplied :
     /\ renderLog[i].update.absoluteStart > 0
     /\ renderLog[i].prev[renderLog[i].update.absoluteStart] \notin WhiteSpace
     /\ renderLog[i].prev[renderLog[i].update.absoluteStart + 1] \in WhiteSpace}

\* C37: when the replaced range begins with the white space that separated it from
\* the text before it, the transcript after the replacement still has white space
\* between that text and the corrected text.
C37_ReplacementKeepsSeparator ==
  \A i \in ClarifiesAfterSpace :
    /\ Len(renderLog[i].next) > renderLog[i].update.absoluteStart
    /\ renderLog[i].next[renderLog[i].update.absoluteStart + 1] \in WhiteSpace

(***************************************************************************)
(* The in-flight flag                                                      *)
(***************************************************************************)
\* the number of clarification calls issued so far: every request is numbered, and
\* every chunk handed over made one transcription request
ClarifyCallsIssued ==
  callsIssued - Cardinality({i \in 1..Len(flushLog) : flushLog[i].handed})

\* C38: the in-flight flag is set exactly while a clarification request is
\* outstanding: every step that ends a request, whatever its outcome, leaves the
\* flag cleared.
C38_FlagOnlyWhileOutstanding ==
  /\ [](clarifyingRef <=> clarifyCalls # {})
  /\ [][clarifyCalls' # clarifyCalls /\ clarifyCalls' \subseteq clarifyCalls
          => ~clarifyingRef']_vars

\* a clarification call has ended and a later check has issued the next one
C38_Witness ==
  /\ ClarifyCallsIssued = 2
  /\ Cardinality(clarifyCalls) = 1
  /\ clarifyingRef

(***************************************************************************)
(* The texts of a diarized response                                        *)
(***************************************************************************)
\* the texts one after another with one space between neighbours
RECURSIVE SpaceJoined(_)
SpaceJoined(texts) ==
  IF texts = <<>> THEN <<>>
  ELSE IF Len(texts) = 1 THEN texts[1]
  ELSE texts[1] \o <<" ">> \o SpaceJoined(Tail(texts))

\* C39: every segment of a diarized response has non-empty text, the synthesized
\* segment included, and the flat text of the response is the texts of its segments
\* joined by single spaces.
C39_SegmentsNonEmptyTextJoined ==
  \A i \in 1..Len(completions) :
    LET segments == completions[i].response.segments
    IN  /\ \A k \in 1..Len(segments) : segments[k].text # <<>>
        /\ completions[i].response.text =
             SpaceJoined([k \in 1..Len(segments) |-> segments[k].text])

====
